---- MODULE Spec2Model ----
(***************************************************************************)
(* log_analyzer / log_query: the line-to-record reconstruction of          *)
(* process_log_file, the time-of-day and flexible timestamp parsers, and   *)
(* the filter-expression parser.                                           *)
(*                                                                         *)
(* Text is a sequence of one-character strings.  An optional value         *)
(* (Python None or an int) is the empty sequence or a one-element one.     *)
(***************************************************************************)
EXTENDS Integers, Sequences, FiniteSets, TLC

VARIABLES
    pc,                 \* position of the running operation
    tz,                 \* the local time zone of the process (environment)
    reference_date,     \* process_log_file / parse_time_to_unix_timestamp argument
    lines,              \* file.readlines() of the file being processed
    idx,                \* number of lines the for-loop has consumed
    current_timestamp,  \* process_log_file local: None or an int
    entries_processed,  \* process_log_file local
    rows,               \* rows INSERTed into logs by this call, in order
    time_str,           \* parse_time_to_unix_timestamp argument
    time_result,        \* its outcome
    ts_instant,         \* the instant a stored display string is made from, or None
    ts_text,            \* parse_timestamp argument
    ts_result,          \* its outcome
    filter_expr,        \* parse_filter_expression argument
    conditions,         \* its outcome: the "conditions" list
    logs,               \* the rows of the logs table a query runs against
    start_ts,           \* build_sql_query arguments
    end_ts,
    limit,
    query,              \* build_sql_query outcome: the query text, or None
    params,             \* build_sql_query outcome: the parameter list
    selected,           \* outcome of cursor.execute(query, params) and fetchall()
    show_fields,        \* log_query.main arguments: --show-fields
    database_exists,    \* os.path.exists(database)
    range,              \* --range
    filters,            \* --filter, in the order given
    fields_option,      \* --fields, empty when not given
    withtime,           \* --withtime
    field_list,         \* log_query.main local: the output fields
    exit_code,          \* how log_query.main ended: None while running
    log_files,          \* log_analyzer.main: discover_log_files(directory)
    file_no,            \* number of files the batch loop has taken
    file_component,     \* process_log_file argument: the component of the file
    inserted,           \* rows INSERTed by the calls so far, per file
    outcomes,           \* per file: the count returned, or the error
    total_entries,      \* log_analyzer.main local
    committed           \* the rows of the logs table that are committed

vars == <<pc, tz, reference_date, lines, idx, current_timestamp, entries_processed,
          rows, time_str, time_result, ts_instant, ts_text, ts_result,
          filter_expr, conditions, logs, start_ts, end_ts, limit, query,
          params, selected, show_fields, database_exists, range, filters,
          fields_option, withtime, field_list, exit_code, log_files, file_no,
          file_component, inserted, outcomes, total_entries, committed>>

\* the variables of a query
queryVars == <<logs, start_ts, end_ts, limit, query, params, selected>>

\* the arguments and locals of log_query.main
commandVars ==
    <<show_fields, database_exists, range, filters, fields_option, withtime, field_list,
      exit_code>>

\* the variables of an ingestion batch
batchVars == <<log_files, file_no, inserted, outcomes, total_entries, committed>>

---------------------------------------------------------------------------
(* Bounds of the model *)

\* longest file, in lines
MaxLines == 3

\* most operands of a generated filter expression
MaxOperands == 3

---------------------------------------------------------------------------
(* Optional values and outcomes *)

None == <<>>
Some(v) == <<v>>

Ok(v) == [ok |-> TRUE, val |-> v, err |-> ""]
Raise(e) == [ok |-> FALSE, val |-> 0, err |-> e]
Pending == [ok |-> FALSE, val |-> 0, err |-> "pending"]

---------------------------------------------------------------------------
(* Characters and Python str primitives *)

DigitChars == <<"0", "1", "2", "3", "4", "5", "6", "7", "8", "9">>

IsDigit(c) == \E i \in 1..10 : DigitChars[i] = c

DigitVal(c) == (CHOOSE i \in 1..10 : DigitChars[i] = c) - 1

\* \s of the re module and str.strip(), within the model's alphabet
IsSpace(c) == c \in {" ", "\t", "\n", "\r"}

AllDigits(s) == \A i \in 1..Len(s) : IsDigit(s[i])

RECURSIVE DigitsValue(_)
DigitsValue(s) ==
    IF s = <<>> THEN 0
    ELSE 10 * DigitsValue(SubSeq(s, 1, Len(s) - 1)) + DigitVal(s[Len(s)])

RECURSIVE LStrip(_)
LStrip(s) == IF s # <<>> /\ IsSpace(s[1]) THEN LStrip(Tail(s)) ELSE s

RECURSIVE RStrip(_)
RStrip(s) ==
    IF s # <<>> /\ IsSpace(s[Len(s)]) THEN RStrip(SubSeq(s, 1, Len(s) - 1)) ELSE s

\* str.strip()
Strip(s) == RStrip(LStrip(s))

\* a loop body that forgets the rstrip
RStripNothing(s) == s

\* line.rstrip('\n\r')
RECURSIVE RStripNewlines(_)
RStripNewlines(s) ==
    IF s # <<>> /\ s[Len(s)] \in {"\n", "\r"}
    THEN RStripNewlines(SubSeq(s, 1, Len(s) - 1))
    ELSE s

\* int(text): surrounding whitespace, an optional sign, then decimal digits
PyInt(s) ==
    LET t == Strip(s)
        signed == t # <<>> /\ t[1] \in {"+", "-"}
        body == IF signed THEN Tail(t) ELSE t
    IN  IF body # <<>> /\ AllDigits(body)
        THEN Ok(IF signed /\ t[1] = "-" THEN 0 - DigitsValue(body) ELSE DigitsValue(body))
        ELSE Raise("ValueError")

\* text.split(sep) for a one-character separator
RECURSIVE SplitFrom(_, _, _)
SplitFrom(s, sep, cur) ==
    IF s = <<>> THEN <<cur>>
    ELSE IF s[1] = sep THEN <<cur>> \o SplitFrom(Tail(s), sep, <<>>)
    ELSE SplitFrom(Tail(s), sep, Append(cur, s[1]))

Split(s, sep) == SplitFrom(s, sep, <<>>)

\* n as decimal text, zero-padded to width w (n >= 0)
RECURSIVE Pad(_, _)
Pad(n, w) ==
    IF w = 0 THEN <<>> ELSE Append(Pad(n \div 10, w - 1), DigitChars[(n % 10) + 1])

---------------------------------------------------------------------------
(* Calendar and local time: datetime.timestamp() and                       *)
(* datetime.fromtimestamp() on naive datetimes go through the local zone.  *)

\* days from 1970-01-01 to the proleptic Gregorian date y-m-d
DaysFromCivil(y, m, d) ==
    LET yy == IF m <= 2 THEN y - 1 ELSE y
        era == yy \div 400
        yoe == yy - era * 400
        mp == (m + 9) % 12
        doy == (153 * mp + 2) \div 5 + d - 1
        doe == yoe * 365 + yoe \div 4 - yoe \div 100 + doy
    IN  era * 146097 + doe - 719468

\* the inverse: the date of a day number
CivilFromDays(z0) ==
    LET z == z0 + 719468
        era == z \div 146097
        doe == z - era * 146097
        yoe == (doe - doe \div 1460 + doe \div 36524 - doe \div 146096) \div 365
        doy == doe - (365 * yoe + yoe \div 4 - yoe \div 100)
        mp == (5 * doy + 2) \div 153
        d == doy - (153 * mp + 2) \div 5 + 1
        m == IF mp < 10 THEN mp + 3 ELSE mp - 9
        y == yoe + era * 400 + (IF m <= 2 THEN 1 ELSE 0)
    IN  [year |-> y, month |-> m, day |-> d]

\* seconds from 1970-01-01T00:00:00 to a wall-clock reading, no zone involved
WallSeconds(dt) ==
    DaysFromCivil(dt.year, dt.month, dt.day) * 86400
        + dt.hour * 3600 + dt.minute * 60 + dt.second

\* the wall-clock reading of a number of seconds since 1970-01-01T00:00:00
WallFields(w) ==
    LET c == CivilFromDays(w \div 86400)
        r == w % 86400
    IN  [year |-> c.year, month |-> c.month, day |-> c.day,
         hour |-> r \div 3600, minute |-> (r % 3600) \div 60, second |-> r % 60]

\* Zones the process may run in: a fixed-offset zone and one with daylight
\* saving (US Eastern, 2023 rules as UTC transition instants).
Zones ==
    { [name |-> "UTC", std |-> 0, dst |-> 0, dstStart |-> 0, dstEnd |-> 0],
      [name |-> "America/New_York", std |-> -18000, dst |-> -14400,
       dstStart |-> 1678604400, dstEnd |-> 1699164000] }

UtcOffset(zone, u) ==
    IF u >= zone.dstStart /\ u < zone.dstEnd THEN zone.dst ELSE zone.std

\* time.localtime(u), as seconds of wall clock
LocalOf(zone, u) == u + UtcOffset(zone, u)

\* datetime.timestamp() of a naive datetime (fold = 0): solve LocalOf(u) = t,
\* preferring the earlier solution; a reading inside a gap maps past the gap.
Mktime(zone, t) ==
    LET a == LocalOf(zone, t) - t
        u1 == t - a
        t1 == LocalOf(zone, u1)
        bEarly == LocalOf(zone, u1 - 86400) - (u1 - 86400)
        b == IF t1 = t THEN bEarly ELSE t1 - u1
        u2 == t - b
        t2 == LocalOf(zone, u2)
    IN  IF t1 = t /\ a = bEarly THEN u1
        ELSE IF t2 = t THEN u2
        ELSE IF t1 = t THEN u1
        ELSE IF u1 > u2 THEN u1 ELSE u2

\* int(dt.timestamp()): the float is seconds + microseconds/1e6 and int()
\* truncates toward zero
IntTimestamp(zone, dt, microsecond) ==
    LET s == Mktime(zone, WallSeconds(dt))
    IN  IF s < 0 /\ microsecond > 0 THEN s + 1 ELSE s

\* datetime.fromtimestamp(u): the local wall-clock reading of the instant u
FromTimestamp(zone, u) == WallFields(LocalOf(zone, u))

\* datetime.isoformat() of a whole-second datetime
IsoFormat(dt) ==
    Pad(dt.year, 4) \o <<"-">> \o Pad(dt.month, 2) \o <<"-">> \o Pad(dt.day, 2)
        \o <<"T">> \o Pad(dt.hour, 2) \o <<":">> \o Pad(dt.minute, 2)
        \o <<":">> \o Pad(dt.second, 2)

\* the stored display string of an instant
DisplayTimestamp(zone, u) == IsoFormat(FromTimestamp(zone, u)) \o <<"Z">>

---------------------------------------------------------------------------
(* log_analyzer.parse_time_to_unix_timestamp *)

\* a range check that is off by one at the top of each component
TimeInRangeLax(h, m, s, us) ==
    /\ 0 <= h /\ h <= 24
    /\ 0 <= m /\ m <= 60
    /\ 0 <= s /\ s <= 60
    /\ 0 <= us /\ us <= 999999

\* datetime.time(hours, minutes, seconds, microseconds) accepts these only
TimeInRange(h, m, s, us) ==
    /\ 0 <= h /\ h <= 23
    /\ 0 <= m /\ m <= 59
    /\ 0 <= s /\ s <= 59
    /\ 0 <= us /\ us <= 999999

parse_time_to_unix_timestamp(zone, str, date) ==
    LET time_parts == Split(str, ":")
    IN  IF ~PyInt(time_parts[1]).ok THEN Raise("ValueError")
        ELSE IF Len(time_parts) < 2 THEN Raise("IndexError")
        ELSE IF ~PyInt(time_parts[2]).ok THEN Raise("ValueError")
        ELSE IF Len(time_parts) < 3 THEN Raise("IndexError")
        ELSE
            LET seconds_parts == Split(time_parts[3], ".")
            IN  IF ~PyInt(seconds_parts[1]).ok THEN Raise("ValueError")
                ELSE IF Len(seconds_parts) < 2 THEN Raise("IndexError")
                ELSE IF ~PyInt(seconds_parts[2]).ok THEN Raise("ValueError")
                ELSE
                    LET hours == PyInt(time_parts[1]).val
                        minutes == PyInt(time_parts[2]).val
                        seconds == PyInt(seconds_parts[1]).val
                        milliseconds == PyInt(seconds_parts[2]).val
                        microseconds == milliseconds * 1000
                    IN  IF ~TimeInRange(hours, minutes, seconds, microseconds)
                        THEN Raise("ValueError")
                        ELSE Ok(IntTimestamp(zone,
                                    [year |-> date.year, month |-> date.month,
                                     day |-> date.day, hour |-> hours,
                                     minute |-> minutes, second |-> seconds],
                                    microseconds))

---------------------------------------------------------------------------
(* log_analyzer.TIMESTAMP_PATTERN and process_log_file *)

\* a pattern without the range restriction on the hour: \d\d
HourTokenAnyDigits(c1, c2) == IsDigit(c1) /\ IsDigit(c2)

\* (?:[01]\d|2[0-3])
HourToken(c1, c2) ==
    \/ c1 \in {"0", "1"} /\ IsDigit(c2)
    \/ c1 = "2" /\ c2 \in {"0", "1", "2", "3"}

\* [0-5]\d
SixtyToken(c1, c2) == c1 \in {"0", "1", "2", "3", "4", "5"} /\ IsDigit(c2)

\* group 1 of TIMESTAMP_PATTERN at the start of the line, then \s
StampPrefix(line) ==
    /\ Len(line) >= 13
    /\ HourToken(line[1], line[2])
    /\ line[3] = ":"
    /\ SixtyToken(line[4], line[5])
    /\ line[6] = ":"
    /\ SixtyToken(line[7], line[8])
    /\ line[9] = "."
    /\ IsDigit(line[10]) /\ IsDigit(line[11]) /\ IsDigit(line[12])
    /\ IsSpace(line[13])

\* TIMESTAMP_PATTERN.match(line): \s+ is greedy and (.*)$ takes the rest of a
\* line, which holds no newline once readlines() and rstrip() have run
TimestampMatch(line) ==
    IF StampPrefix(line)
    THEN [matched |-> TRUE, time |-> SubSeq(line, 1, 12),
          message |-> LStrip(SubSeq(line, 13, Len(line)))]
    ELSE [matched |-> FALSE, time |-> <<>>, message |-> <<>>]

\* a loop that starts from instant 0 instead of None
LineTimestampDefaulted(zone, line, date, cur) ==
    LET m == TimestampMatch(line)
        parsed == parse_time_to_unix_timestamp(zone, m.time, date)
    IN  IF m.matched
        THEN (IF parsed.ok THEN Ok(Some(parsed.val)) ELSE parsed)
        ELSE Ok(IF cur = None THEN Some(0) ELSE cur)

\* a loop that never lets the current instant go back
LineTimestampKeepsLatest(zone, line, date, cur) ==
    LET m == TimestampMatch(line)
        parsed == parse_time_to_unix_timestamp(zone, m.time, date)
    IN  IF m.matched
        THEN (IF ~parsed.ok THEN parsed
              ELSE IF cur # None /\ cur[1] > parsed.val THEN Ok(cur)
              ELSE Ok(Some(parsed.val)))
        ELSE Ok(cur)

\* the loop body's value of current_timestamp after the match / else branches:
\* an outcome holding the optional instant, or the exception of the parse
LineTimestamp(zone, line, date, cur) ==
    LET m == TimestampMatch(line)
        parsed == parse_time_to_unix_timestamp(zone, m.time, date)
    IN  IF m.matched
        THEN (IF parsed.ok THEN Ok(Some(parsed.val)) ELSE parsed)
        ELSE Ok(cur)

\* a loop that stores continuation lines stripped of surrounding whitespace
LineMessageStripped(line) ==
    LET m == TimestampMatch(line)
    IN  IF m.matched THEN m.message ELSE Strip(line)

\* the loop body's value of message
LineMessage(line) ==
    LET m == TimestampMatch(line)
    IN  IF m.matched THEN m.message ELSE line

\* "if current_timestamp is not None"
HasTimestamp(ts) == ts # None

\* the parameters of the INSERT
LogRow(zone, ts, component, message) ==
    [ts |-> ts[1], timestamp |-> DisplayTimestamp(zone, ts[1]),
     component |-> component, message |-> message]

\* the component the caller passes for the file
Component == "reaper"

\* the line the for-loop takes next, after line.rstrip('\n\r')
CurrentLine == RStripNewlines(lines[idx + 1])

\* one iteration of "for line in lines"
ProcessLine ==
    /\ pc = "loop"
    /\ idx < Len(lines)
    /\ idx' = idx + 1
    /\ LET line == CurrentLine
           stamp == LineTimestamp(tz, line, reference_date, current_timestamp)
       IN  IF line = <<>>
           THEN UNCHANGED <<pc, current_timestamp, entries_processed, rows>>
           ELSE IF ~stamp.ok
           THEN /\ pc' = "raised"
                /\ UNCHANGED <<current_timestamp, entries_processed, rows>>
           ELSE /\ pc' = pc
                /\ current_timestamp' = stamp.val
                /\ IF HasTimestamp(stamp.val)
                   THEN /\ rows' = Append(rows,
                               LogRow(tz, stamp.val, file_component, LineMessage(line)))
                        /\ entries_processed' = entries_processed + 1
                   ELSE UNCHANGED <<rows, entries_processed>>
    /\ UNCHANGED <<tz, reference_date, lines, time_str, time_result,
                   ts_instant, ts_text, ts_result, filter_expr, conditions>>
    /\ UNCHANGED queryVars
    /\ UNCHANGED commandVars
    /\ UNCHANGED <<batchVars, file_component>>

\* "return entries_processed" once the loop is exhausted
ReturnEntries ==
    /\ pc = "loop"
    /\ idx = Len(lines)
    /\ pc' = "returned"
    /\ UNCHANGED <<tz, reference_date, lines, idx, current_timestamp,
                   entries_processed, rows, time_str, time_result,
                   ts_instant, ts_text, ts_result, filter_expr, conditions>>
    /\ UNCHANGED queryVars
    /\ UNCHANGED commandVars
    /\ UNCHANGED <<batchVars, file_component>>

(* Files the reconstruction is run on *)

EmptyLine == <<>>
LineB == <<"1", "0", ":", "0", "0", ":", "0", "1", ".", "0", "0", "0", " ", "B">>
LineEarlier == <<"0", "9", ":", "5", "9", ":", "5", "9", ".", "9", "9", "9", " ", "\t", " ", "C", " ">>
LineOrphan == <<"o", "r", "p", "h", "a", "n">>
LineHour25 == <<"2", "5", ":", "0", "0", ":", "0", "0", ".", "0", "0", "0", " ", "X">>
LineMinute60 == <<"1", "4", ":", "6", "0", ":", "0", "0", ".", "0", "0", "0", " ", "X">>
LineSecond60 == <<"1", "4", ":", "4", "5", ":", "6", "0", ".", "0", "0", "0", " ", "X">>
LineNoMillis == <<"1", "4", ":", "4", "5", ":", "3", "6", " ", "X">>
LineLeadingSpace == <<" ", "1", "4", ":", "4", "5", ":", "3", "6", ".", "5", "0", "7", " ", "X">>
LineBareStamp == <<"1", "0", ":", "0", "0", ":", "0", "0", ".", "0", "0", "0">>
LineBlank == <<" ", " ">>

\* lines whose leading token is not a valid HH:MM:SS.mmm time of day
InvalidStampLines ==
    {LineHour25, LineMinute60, LineSecond60, LineNoMillis, LineLeadingSpace}

LineChoices ==
    {EmptyLine, LineB, LineEarlier, LineOrphan, LineBareStamp, LineBlank}
        \cup InvalidStampLines

\* readlines(): every line keeps its terminating newline
RawLine(text) == text \o <<"\n">>

\* a file of n lines; the last line of a file may lack its newline
TerminatedFiles ==
    UNION { [1..n -> {RawLine(l) : l \in LineChoices}] : n \in 0..MaxLines }

RawFiles ==
    TerminatedFiles \cup
        { [f EXCEPT ![Len(f)] = SubSeq(f[Len(f)], 1, Len(f[Len(f)]) - 1)] :
            f \in {g \in TerminatedFiles : Len(g) > 0 /\ g[Len(g)] # <<"\n">>} }

IngestZones == {z \in Zones : z.name = "America/New_York"}

IngestDates == { [year |-> 2023, month |-> 10, day |-> 15] }

\* no process_log_file call in progress
NoIngest ==
    /\ lines = <<>>
    /\ idx = 0
    /\ current_timestamp = None
    /\ entries_processed = 0
    /\ rows = <<>>
    /\ file_component = ""

\* no parse_time_to_unix_timestamp call in progress
NoTimeCall == time_str = <<>> /\ time_result = Pending

\* no parse_timestamp call in progress
NoTsCall == ts_instant = None /\ ts_text = <<>> /\ ts_result = Pending

\* no parse_filter_expression call in progress
NoFilterCall == filter_expr = <<>> /\ conditions = <<>>

\* no query in progress
NoQuery ==
    /\ logs = <<>>
    /\ start_ts = 0
    /\ end_ts = 0
    /\ limit = None
    /\ query = None
    /\ params = <<>>
    /\ selected = Pending

\* log_query.main not running
NoCommand ==
    /\ show_fields = FALSE
    /\ database_exists = TRUE
    /\ range = 0
    /\ filters = <<>>
    /\ fields_option = <<>>
    /\ withtime = FALSE
    /\ field_list = <<>>
    /\ exit_code = None

\* no ingestion batch running
NoBatch ==
    /\ log_files = <<>>
    /\ file_no = 0
    /\ inserted = <<>>
    /\ outcomes = <<>>
    /\ total_entries = 0
    /\ committed = <<>>

\* process_log_file entered: locals initialised, file read
InitIngest ==
    /\ pc = "loop"
    /\ tz \in IngestZones
    /\ reference_date \in IngestDates
    /\ lines \in RawFiles
    /\ idx = 0
    /\ current_timestamp = None
    /\ entries_processed = 0
    /\ rows = <<>>
    /\ file_component = Component
    /\ NoTimeCall /\ NoTsCall /\ NoFilterCall /\ NoQuery
    /\ NoCommand /\ NoBatch

NextIngest == ProcessLine \/ ReturnEntries

SpecIngest == InitIngest /\ [][NextIngest]_vars

---------------------------------------------------------------------------
(* Calls of parse_time_to_unix_timestamp *)

\* "HH:MM:SS.mmm" of the given numbers
TimeToken(h, m, sec, ms) ==
    Pad(h, 2) \o <<":">> \o Pad(m, 2) \o <<":">> \o Pad(sec, 2) \o <<".">> \o Pad(ms, 3)

SampleHours == {0, 1, 2, 3, 9, 14, 23}
SampleMinutes == {0, 30, 59}
SampleSeconds == {0, 36, 59}
SampleMillis == {0, 507, 999}

ValidTimeInputs ==
    { TimeToken(h, m, sec, ms) :
        h \in SampleHours, m \in SampleMinutes, sec \in SampleSeconds, ms \in SampleMillis }

TimeHour24 == <<"2", "4", ":", "0", "0", ":", "0", "0", ".", "0", "0", "0">>
TimeMinute60 == <<"1", "4", ":", "6", "0", ":", "0", "0", ".", "0", "0", "0">>
TimeSecond60 == <<"1", "4", ":", "4", "5", ":", "6", "0", ".", "0", "0", "0">>
TimeShortFields == <<"1", ":", "2", ":", "3", ".", "4">>
TimeNoMillis == <<"1", "4", ":", "4", "5", ":", "3", "6">>
TimeFourMillis == <<"1", "4", ":", "4", "5", ":", "3", "6", ".", "5", "0", "7", "0">>
TimeEmpty == <<>>
TimeWord == <<"a", "b", "c">>
TimeLeadingSpace == <<" ", "1", "4", ":", "4", "5", ":", "3", "6", ".", "5", "0", "7">>
TimeExtraPart == <<"1", "4", ":", "4", "5", ":", "3", "6", ".", "5", "0", "7", ":", "0", "0">>
TimeNoSeconds == <<"1", "4", ":", "4", "5">>
TimeLetters == <<"a", "b", ":", "c", "d", ":", "e", "f", ".", "g", "h", "i">>
TimeNegativeMillis == <<"1", "4", ":", "4", "5", ":", "3", "6", ".", "-", "0", "5">>

OtherTimeInputs ==
    {TimeHour24, TimeMinute60, TimeSecond60, TimeShortFields, TimeNoMillis,
     TimeFourMillis, TimeEmpty, TimeWord, TimeLeadingSpace, TimeExtraPart,
     TimeNoSeconds, TimeLetters, TimeNegativeMillis}

\* reference dates: an ordinary day, the two daylight-saving change days of
\* 2023 in US Eastern, and a day before 1970
TimeDates ==
    { [year |-> 2023, month |-> 10, day |-> 15],
      [year |-> 2023, month |-> 3, day |-> 12],
      [year |-> 2023, month |-> 11, day |-> 5],
      [year |-> 1969, month |-> 12, day |-> 31] }

InitTime ==
    /\ pc = "time_call"
    /\ tz \in Zones
    /\ reference_date \in TimeDates
    /\ time_str \in ValidTimeInputs \cup OtherTimeInputs
    /\ time_result = Pending
    /\ NoIngest /\ NoTsCall /\ NoFilterCall /\ NoQuery
    /\ NoCommand /\ NoBatch

\* the call returns or raises
ParseTime ==
    /\ pc = "time_call"
    /\ time_result' = parse_time_to_unix_timestamp(tz, time_str, reference_date)
    /\ pc' = "time_done"
    /\ UNCHANGED <<tz, reference_date, lines, idx, current_timestamp,
                   entries_processed, rows, time_str, ts_instant, ts_text,
                   ts_result, filter_expr, conditions>>
    /\ UNCHANGED queryVars
    /\ UNCHANGED commandVars
    /\ UNCHANGED <<batchVars, file_component>>

NextTime == ParseTime

SpecTime == InitTime /\ [][NextTime]_vars

---------------------------------------------------------------------------
(* datetime.strptime and log_query.parse_timestamp *)

UpperChars == <<"A", "B", "C", "D", "E", "F", "G", "H", "I", "J", "K", "L", "M",
                "N", "O", "P", "Q", "R", "S", "T", "U", "V", "W", "X", "Y", "Z">>

LowerChars == <<"a", "b", "c", "d", "e", "f", "g", "h", "i", "j", "k", "l", "m",
                "n", "o", "p", "q", "r", "s", "t", "u", "v", "w", "x", "y", "z">>

\* str.upper() of one character
UpperChar(c) ==
    IF \E i \in 1..26 : LowerChars[i] = c
    THEN UpperChars[CHOOSE i \in 1..26 : LowerChars[i] = c]
    ELSE c

\* str.upper()
Upper(str) == [i \in 1..Len(str) |-> UpperChar(str[i])]

DigitRange(lo, hi) == { DigitChars[i + 1] : i \in lo..hi }

\* one alternative of a directive's pattern: two characters, or one
TwoCharOption(text, firsts, seconds) ==
    IF Len(text) >= 2 /\ text[1] \in firsts /\ text[2] \in seconds
    THEN << [w |-> 2, v |-> DigitsValue(LStrip(SubSeq(text, 1, 2)))] >>
    ELSE <<>>

OneCharOption(text, firsts) ==
    IF Len(text) >= 1 /\ text[1] \in firsts
    THEN << [w |-> 1, v |-> DigitVal(text[1])] >>
    ELSE <<>>

\* the alternatives of a strptime directive that match at the start of text,
\* in the order the pattern lists them
DirectiveOptions(d, text) ==
    CASE d = "%Y" ->
            (IF Len(text) >= 4 /\ AllDigits(SubSeq(text, 1, 4))
             THEN << [w |-> 4, v |-> DigitsValue(SubSeq(text, 1, 4))] >>
             ELSE <<>>)
      [] d = "%m" ->
            TwoCharOption(text, {"1"}, DigitRange(0, 2))
                \o TwoCharOption(text, {"0"}, DigitRange(1, 9))
                \o OneCharOption(text, DigitRange(1, 9))
      [] d = "%d" ->
            TwoCharOption(text, {"3"}, DigitRange(0, 1))
                \o TwoCharOption(text, DigitRange(1, 2), DigitRange(0, 9))
                \o TwoCharOption(text, {"0"}, DigitRange(1, 9))
                \o OneCharOption(text, DigitRange(1, 9))
                \o TwoCharOption(text, {" "}, DigitRange(1, 9))
      [] d = "%H" ->
            TwoCharOption(text, {"2"}, DigitRange(0, 3))
                \o TwoCharOption(text, DigitRange(0, 1), DigitRange(0, 9))
                \o OneCharOption(text, DigitRange(0, 9))
      [] d = "%M" ->
            TwoCharOption(text, DigitRange(0, 5), DigitRange(0, 9))
                \o OneCharOption(text, DigitRange(0, 9))
      [] d = "%S" ->
            TwoCharOption(text, {"6"}, DigitRange(0, 1))
                \o TwoCharOption(text, DigitRange(0, 5), DigitRange(0, 9))
                \o OneCharOption(text, DigitRange(0, 9))

IsDirective(tok) == tok \in {"%Y", "%m", "%d", "%H", "%M", "%S"}

NoFields == [d \in {"%Y", "%m", "%d", "%H", "%M", "%S"} |-> 0]

StrpFail == [ok |-> FALSE, fields |-> NoFields, rest |-> <<>>]

\* the match of the format's pattern at the start of text: directives try
\* their alternatives in order, a space of the format is \s+, any other
\* character matches itself without regard to case
RECURSIVE StrpMatch(_, _, _)
RECURSIVE StrpFirst(_, _, _, _, _)

StrpFirst(text, fmt, acc, opts, i) ==
    IF i > Len(opts) THEN StrpFail
    ELSE LET try == StrpMatch(SubSeq(text, opts[i].w + 1, Len(text)), Tail(fmt),
                              [acc EXCEPT ![fmt[1]] = opts[i].v])
         IN  IF try.ok THEN try ELSE StrpFirst(text, fmt, acc, opts, i + 1)

StrpMatch(text, fmt, acc) ==
    IF fmt = <<>> THEN [ok |-> TRUE, fields |-> acc, rest |-> text]
    ELSE IF IsDirective(fmt[1])
    THEN StrpFirst(text, fmt, acc, DirectiveOptions(fmt[1], text), 1)
    ELSE IF fmt[1] = " "
    THEN (IF text # <<>> /\ IsSpace(text[1])
          THEN StrpMatch(LStrip(text), Tail(fmt), acc)
          ELSE StrpFail)
    ELSE IF text # <<>> /\ UpperChar(text[1]) = UpperChar(fmt[1])
    THEN StrpMatch(Tail(text), Tail(fmt), acc)
    ELSE StrpFail

IsLeap(y) == y % 4 = 0 /\ (y % 100 # 0 \/ y % 400 = 0)

DaysInMonth(y, m) ==
    IF m = 2 THEN (IF IsLeap(y) THEN 29 ELSE 28)
    ELSE IF m \in {4, 6, 9, 11} THEN 30 ELSE 31

\* datetime.strptime(text, fmt): the whole text must be converted and the
\* fields must make a datetime
Strptime(text, fmt) ==
    LET found == StrpMatch(text, fmt, NoFields)
        f == found.fields
    IN  IF ~found.ok \/ found.rest # <<>> THEN Raise("ValueError")
        ELSE IF f["%Y"] < 1 \/ f["%d"] > DaysInMonth(f["%Y"], f["%m"]) \/ f["%S"] > 59
        THEN Raise("ValueError")
        ELSE Ok([year |-> f["%Y"], month |-> f["%m"], day |-> f["%d"],
                 hour |-> f["%H"], minute |-> f["%M"], second |-> f["%S"]])

LayoutT == <<"%Y", "-", "%m", "-", "%d", "T", "%H", ":", "%M", ":", "%S">>
LayoutTZ == <<"%Y", "-", "%m", "-", "%d", "T", "%H", ":", "%M", ":", "%S", "Z">>
LayoutSpace == <<"%Y", "-", "%m", "-", "%d", " ", "%H", ":", "%M", ":", "%S">>

\* a format list that lacks the layout with the trailing Z
iso_formats_without_z == <<LayoutT, LayoutSpace>>

iso_formats == <<LayoutT, LayoutTZ, LayoutSpace>>

\* "for fmt in iso_formats": the first layout, from the i-th on, that converts
RECURSIVE TryFormats(_, _, _)
TryFormats(zone, text, i) ==
    IF i > Len(iso_formats)
    THEN Raise("ValueError")
    ELSE LET dt == Strptime(text, iso_formats[i])
         IN  IF dt.ok THEN Ok(IntTimestamp(zone, dt.val, 0))
             ELSE TryFormats(zone, text, i + 1)

\* a parse that forgets to strip the text
parse_timestamp_unstripped(zone, timestamp_str) ==
    IF PyInt(timestamp_str).ok THEN Ok(PyInt(timestamp_str).val)
    ELSE TryFormats(zone, timestamp_str, 1)

parse_timestamp(zone, timestamp_str) ==
    LET stripped == Strip(timestamp_str)
    IN  IF PyInt(stripped).ok THEN Ok(PyInt(stripped).val)
        ELSE TryFormats(zone, stripped, 1)

---------------------------------------------------------------------------
(* Calls of parse_timestamp, on typed text and on stored display strings *)

TextUnix == <<"1", "6", "9", "7", "3", "9", "5", "5", "3", "6">>
TextPaddedInt == <<" ", "1", "2", " ">>
TextPlusInt == <<"+", "5">>
TextMinusInt == <<"-", "5">>
TextEmpty == <<>>
TextInvalid == <<"i", "n", "v", "a", "l", "i", "d", "-", "t", "i", "m", "e", "s", "t", "a", "m", "p">>
TextFeb30 == <<"2", "0", "2", "3", "-", "0", "2", "-", "3", "0", "T", "0", "0", ":", "0", "0", ":", "0", "0">>
TextSecond60 == <<"2", "0", "2", "3", "-", "1", "0", "-", "1", "5", "T", "1", "4", ":", "4", "5", ":", "6", "0">>
TextNoSeconds == <<"2", "0", "2", "3", "-", "1", "0", "-", "1", "5", "T", "1", "4", ":", "4", "5">>
TextFraction == <<"2", "0", "2", "3", "-", "1", "0", "-", "1", "5", "T", "1", "4", ":", "4", "5", ":", "3", "6", ".", "5">>
TextDecimal == <<"1", "2", ".", "5">>
TextDateOnly == <<"2", "0", "2", "3", "-", "1", "0", "-", "1", "5">>
TextShortFields == <<"2", "0", "2", "3", "-", "1", "-", "5", "T", "4", ":", "5", ":", "6">>
TextLowerT == <<"2", "0", "2", "3", "-", "1", "0", "-", "1", "5", "t", "1", "4", ":", "4", "5", ":", "3", "6">>
TextTwoSpaces == <<"2", "0", "2", "3", "-", "1", "0", "-", "1", "5", " ", " ", "1", "4", ":", "4", "5", ":", "3", "6">>
TextSpaceZ == <<"2", "0", "2", "3", "-", "1", "0", "-", "1", "5", " ", "1", "4", ":", "4", "5", ":", "3", "6", "Z">>
TextPaddedIso == <<" ", "2", "0", "2", "3", "-", "1", "0", "-", "1", "5", "T", "1", "4", ":", "4", "5", ":", "3", "6", "Z", " ">>
TextIsoBasic == <<"2", "0", "2", "3", "-", "1", "0", "-", "1", "5", "T", "1", "4", ":", "4", "5", ":", "3", "6">>
TextIsoZ == <<"2", "0", "2", "3", "-", "1", "0", "-", "1", "5", "T", "1", "4", ":", "4", "5", ":", "3", "6", "Z">>
TextIsoSpace == <<"2", "0", "2", "3", "-", "1", "0", "-", "1", "5", " ", "1", "4", ":", "4", "5", ":", "3", "6">>

\* wall-clock readings written in each layout
SampleDateTimes ==
    { [year |-> 2023, month |-> 10, day |-> 15, hour |-> 14, minute |-> 45, second |-> 36],
      [year |-> 2024, month |-> 2, day |-> 29, hour |-> 23, minute |-> 59, second |-> 59],
      [year |-> 1970, month |-> 1, day |-> 1, hour |-> 0, minute |-> 0, second |-> 0],
      [year |-> 2023, month |-> 3, day |-> 12, hour |-> 2, minute |-> 30, second |-> 0],
      [year |-> 2023, month |-> 11, day |-> 5, hour |-> 1, minute |-> 30, second |-> 0] }

\* isoformat with the T replaced by a space
SpaceFormat(dt) == [IsoFormat(dt) EXCEPT ![11] = " "]

TsTexts ==
    {TextUnix, TextPaddedInt, TextPlusInt, TextMinusInt, TextEmpty, TextInvalid,
     TextFeb30, TextSecond60, TextNoSeconds, TextFraction, TextDecimal,
     TextDateOnly, TextShortFields, TextLowerT, TextTwoSpaces, TextSpaceZ,
     TextPaddedIso, TextIsoBasic, TextIsoZ, TextIsoSpace}
        \cup { IsoFormat(dt) : dt \in SampleDateTimes }
        \cup { IsoFormat(dt) \o <<"Z">> : dt \in SampleDateTimes }
        \cup { SpaceFormat(dt) : dt \in SampleDateTimes }

\* instants of stored rows: ordinary ones, the epoch and before it, and the
\* hours around the two 2023 daylight-saving changes of US Eastern
SampleInstants ==
    {-86400, -1, 0, 1, 86399, 951782400, 1697381136, 1697395536, 1709251199}
        \cup { 1678604400 + d : d \in {-3600, -1, 0, 1, 3599, 3600} }
        \cup { 1699164000 + d : d \in {-3601, -3600, -1800, -1, 0, 1, 1800, 3599, 3600} }

InitTs ==
    /\ tz \in Zones
    /\ \/ pc = "ts_format" /\ ts_instant \in {Some(t) : t \in SampleInstants} /\ ts_text = <<>>
       \/ pc = "ts_call" /\ ts_instant = None /\ ts_text \in TsTexts
    /\ ts_result = Pending
    /\ reference_date = [year |-> 2023, month |-> 10, day |-> 15]
    /\ NoIngest /\ NoTimeCall /\ NoFilterCall /\ NoQuery
    /\ NoCommand /\ NoBatch

\* the display string of an instant is written to the store and read back
FormatInstant ==
    /\ pc = "ts_format"
    /\ ts_text' = DisplayTimestamp(tz, ts_instant[1])
    /\ pc' = "ts_call"
    /\ UNCHANGED <<tz, reference_date, lines, idx, current_timestamp,
                   entries_processed, rows, time_str, time_result, ts_instant,
                   ts_result, filter_expr, conditions>>
    /\ UNCHANGED queryVars
    /\ UNCHANGED commandVars
    /\ UNCHANGED <<batchVars, file_component>>

\* parse_timestamp returns or raises
ParseTimestamp ==
    /\ pc = "ts_call"
    /\ ts_result' = parse_timestamp(tz, ts_text)
    /\ pc' = "ts_done"
    /\ UNCHANGED <<tz, reference_date, lines, idx, current_timestamp,
                   entries_processed, rows, time_str, time_result, ts_instant,
                   ts_text, filter_expr, conditions>>
    /\ UNCHANGED queryVars
    /\ UNCHANGED commandVars
    /\ UNCHANGED <<batchVars, file_component>>

NextTs == FormatInstant \/ ParseTimestamp

SpecTs == InitTs /\ [][NextTs]_vars

---------------------------------------------------------------------------
(* log_query.parse_filter_expression *)

WordAnd == <<"A", "N", "D">>
WordOr == <<"O", "R">>
WordNot == <<"N", "O", "T">>
SignAnd == <<"&", "&">>
SignOr == <<"|", "|">>

\* whether text starts with the word, letters compared without regard to case
StartsWith(text, word) ==
    Len(text) >= Len(word) /\ Upper(SubSeq(text, 1, Len(word))) = word

\* (AND|OR|\&\&|\|\|) at the start of text: the token's length, 0 when none
OperatorLength(text) ==
    IF StartsWith(text, WordAnd) THEN 3
    ELSE IF StartsWith(text, WordOr) \/ StartsWith(text, SignAnd) \/ StartsWith(text, SignOr)
    THEN 2
    ELSE 0

\* a match of \s+(AND|OR|\&\&|\|\|)\s+ at the start of text: both runs of
\* whitespace are taken whole
SeparatorMatch(text) ==
    LET afterGap == LStrip(text)
        n == OperatorLength(afterGap)
        afterOp == SubSeq(afterGap, n + 1, Len(afterGap))
    IN  IF Len(afterGap) < Len(text) /\ n > 0 /\ afterOp # <<>> /\ IsSpace(afterOp[1])
        THEN [ok |-> TRUE, op |-> SubSeq(afterGap, 1, n), rest |-> LStrip(afterOp)]
        ELSE [ok |-> FALSE, op |-> <<>>, rest |-> <<>>]

\* re.split(pattern, text): the texts between the matches, leftmost match
\* first, with the captured operator token after each
RECURSIVE SplitOperators(_, _)
SplitOperators(text, cur) ==
    IF text = <<>> THEN <<cur>>
    ELSE LET m == SeparatorMatch(text)
         IN  IF m.ok THEN <<cur, m.op>> \o SplitOperators(m.rest, <<>>)
             ELSE SplitOperators(Tail(text), Append(cur, text[1]))

\* an operator that reads the token without upper-casing it
JoinOperatorCaseSensitive(parts, i) ==
    IF i + 1 <= Len(parts) /\ parts[i + 1] \in {WordAnd, WordOr, SignAnd, SignOr}
    THEN (IF parts[i + 1] \in {WordAnd, SignAnd} THEN "AND" ELSE "OR")
    ELSE "AND"

\* the loop's "operator": the token after the condition at position i,
\* upper-cased, && read as AND and || as OR; AND when there is none
JoinOperator(parts, i) ==
    IF i + 1 <= Len(parts) /\ Upper(parts[i + 1]) \in {WordAnd, WordOr, SignAnd, SignOr}
    THEN (IF Upper(parts[i + 1]) \in {WordAnd, SignAnd} THEN "AND" ELSE "OR")
    ELSE "AND"

\* "operator if i + 2 < len(parts) else None"
RecordedOperator(parts, i) ==
    IF i + 2 <= Len(parts) THEN Some(JoinOperator(parts, i)) ELSE None

\* ^not\s*\((.+)\)$ : the inner text, when the condition has that shape
NotFunction(text) ==
    LET afterNot == LStrip(SubSeq(text, 4, Len(text)))
    IN  IF /\ StartsWith(text, WordNot)
           /\ Len(afterNot) >= 3
           /\ afterNot[1] = "("
           /\ afterNot[Len(afterNot)] = ")"
        THEN [ok |-> TRUE, inner |-> SubSeq(afterNot, 2, Len(afterNot) - 1)]
        ELSE [ok |-> FALSE, inner |-> <<>>]

\* ^(NOT|!)\s* : the text after the prefix and the whitespace behind it
NotPrefix(text) ==
    IF StartsWith(text, WordNot)
    THEN [ok |-> TRUE, rest |-> LStrip(SubSeq(text, 4, Len(text)))]
    ELSE IF text # <<>> /\ text[1] = "!"
    THEN [ok |-> TRUE, rest |-> LStrip(Tail(text))]
    ELSE [ok |-> FALSE, rest |-> <<>>]

\* negated and condition_clean after the NOT patterns
Negation(condition) ==
    IF NotFunction(condition).ok
    THEN [negated |-> TRUE, clean |-> Strip(NotFunction(condition).inner)]
    ELSE IF NotPrefix(condition).ok
    THEN [negated |-> TRUE, clean |-> Strip(NotPrefix(condition).rest)]
    ELSE [negated |-> FALSE, clean |-> condition]

\* the position of the last colon, 0 when there is none
LastColon(text) ==
    IF \E i \in 1..Len(text) : text[i] = ":"
    THEN CHOOSE i \in 1..Len(text) :
            text[i] = ":" /\ \A j \in (i + 1)..Len(text) : text[j] # ":"
    ELSE 0

\* the position of the first colon, 0 when there is none
FirstColon(text) ==
    IF \E i \in 1..Len(text) : text[i] = ":"
    THEN CHOOSE i \in 1..Len(text) : text[i] = ":" /\ \A j \in 1..(i - 1) : text[j] # ":"
    ELSE 0

\* a condition split at the last colon instead of the first
ConditionOfLastColon(clean, negated, operator) ==
    LET c == LastColon(clean)
    IN  IF c > 0
        THEN [type |-> "field",
              field |-> Strip(SubSeq(clean, 1, c - 1)),
              value |-> Strip(SubSeq(clean, c + 1, Len(clean))),
              negated |-> negated,
              operator |-> operator]
        ELSE [type |-> "general",
              value |-> clean,
              negated |-> negated,
              operator |-> operator]

\* the dict appended for a condition
ConditionOf(clean, negated, operator) ==
    LET c == FirstColon(clean)
    IN  IF c > 0
        THEN [type |-> "field",
              field |-> Strip(SubSeq(clean, 1, c - 1)),
              value |-> Strip(SubSeq(clean, c + 1, Len(clean))),
              negated |-> negated,
              operator |-> operator]
        ELSE [type |-> "general",
              value |-> clean,
              negated |-> negated,
              operator |-> operator]

\* one turn of the while loop, for the condition at position i of parts
ParseCondition(parts, i) ==
    LET neg == Negation(Strip(Strip(parts[i])))
    IN  ConditionOf(neg.clean, neg.negated, RecordedOperator(parts, i))

\* parse_filter_expression(filter_expr)["conditions"]
parse_filter_expression(expr) ==
    IF expr = <<>> THEN <<>>
    ELSE LET parts == SplitOperators(expr, <<>>)
         IN  [k \in 1..((Len(parts) + 1) \div 2) |-> ParseCondition(parts, 2 * k - 1)]

---------------------------------------------------------------------------
(* Calls of parse_filter_expression *)

AtomError == <<"e", "r", "r", "o", "r">>
AtomField == <<"c", "o", "m", "p", "o", "n", "e", "n", "t", ":", "r", "e", "a", "p", "e", "r">>
AtomBang == <<"!", "x">>
SepAnd == <<" ", "A", "N", "D", " ">>
SepLowerOr == <<" ", "o", "r", " ">>
SepSignAnd == <<" ", "&", "&", " ">>
SepSignOr == <<" ", "|", "|", " ">>
SepWideOr == <<" ", " ", "O", "r", "\t">>
FilterNotFunction == <<"n", "o", "t", "(", "e", "r", "r", "o", "r", ")">>
FilterNotWord == <<"N", "O", "T", " ", "e", "r", "r", "o", "r">>
FilterNothing == <<"n", "o", "t", "h", "i", "n", "g">>
FilterColons == <<"a", ":", "b", ":", "c">>
FilterPadded == <<" ", "e", "r", "r", "o", "r", " ">>
FilterBlank == <<" ", " ", " ">>
FilterDoubleAnd == <<"a", " ", "A", "N", "D", " ", "A", "N", "D", " ", "b">>
FilterAndOr == <<"x", " ", "A", "N", "D", " ", "O", "R", " ", "y">>
FilterGluedOr == <<"x", " ", "O", "R", "y", " ", "A", "N", "D", " ", "z">>
FilterTrailingAnd == <<"e", "r", "r", "o", "r", " ", "A", "N", "D">>
FilterGluedSign == <<"a", "&", "&", "b">>
FilterTsPair == <<"t", "s", ":", "5", " ", "a", "n", "d", " ", "!", "t", "s", ":", "x">>
AtomEmpty == <<>>

JoinAtoms == {AtomError, AtomField, AtomBang, AtomEmpty}

Separators == {SepAnd, SepLowerOr, SepSignAnd, SepSignOr, SepWideOr}

\* filters of n operands joined by operator tokens
RECURSIVE JoinedFilters(_)
JoinedFilters(n) ==
    IF n = 1 THEN JoinAtoms
    ELSE { f \o sep \o a : f \in JoinedFilters(n - 1), sep \in Separators, a \in JoinAtoms }

AtomParen == <<"(", "a", ")">>
AtomNote == <<"N", "O", "T", "E">>
FilterSpacedColon == <<"a", " ", ":", " ", "b">>
FilterNotColons == <<"N", "O", "T", " ", "a", ":", "b", ":", "c">>
FilterNotTab == <<"N", "o", "t", "\t", "e", "r", "r", "o", "r">>
FilterNotTrail == <<"n", "o", "t", "(", "a", ")", " ", "b">>
FilterBareNot == <<"N", "O", "T">>
FilterNotGap == <<"n", "o", "t", " ", "(", "x", ")">>
FilterOneSpace == <<" ">>
FilterColonOnly == <<":">>

\* atoms to negate
NegationAtoms ==
    {AtomError, AtomField, FilterColons, FilterSpacedColon, FilterNothing,
     AtomParen, AtomNote}

\* the three negation spellings of an atom
NotWrapped(x) == <<"n", "o", "t", "(">> \o x \o <<")">>
NotWorded(x) == <<"N", "O", "T", " ">> \o x
NotBanged(x) == <<"!">> \o x

NegatedFilters ==
    UNION { {NotWrapped(x), NotWorded(x), NotBanged(x)} : x \in NegationAtoms }

FilterInputs ==
    UNION { JoinedFilters(n) : n \in 1..MaxOperands }
        \cup NegationAtoms \cup NegatedFilters
        \cup {FilterNotFunction, FilterNotWord, FilterNothing, FilterColons,
              FilterPadded, FilterBlank, FilterDoubleAnd, FilterAndOr,
              FilterGluedOr, FilterTrailingAnd, FilterGluedSign, FilterTsPair,
              FilterNotColons, FilterNotTab, FilterNotTrail, FilterBareNot,
              FilterNotGap, FilterOneSpace, FilterColonOnly}

InitFilter ==
    /\ pc = "filter_call"
    /\ tz \in {z \in Zones : z.name = "UTC"}
    /\ reference_date = [year |-> 2023, month |-> 10, day |-> 15]
    /\ filter_expr \in FilterInputs
    /\ conditions = <<>>
    /\ NoIngest /\ NoTimeCall /\ NoTsCall /\ NoQuery
    /\ NoCommand /\ NoBatch

\* parse_filter_expression returns
ParseFilter ==
    /\ pc = "filter_call"
    /\ conditions' = parse_filter_expression(filter_expr)
    /\ pc' = "filter_done"
    /\ UNCHANGED <<tz, reference_date, lines, idx, current_timestamp,
                   entries_processed, rows, time_str, time_result, ts_instant,
                   ts_text, ts_result, filter_expr>>
    /\ UNCHANGED queryVars
    /\ UNCHANGED commandVars
    /\ UNCHANGED <<batchVars, file_component>>

NextFilter == ParseFilter

SpecFilter == InitFilter /\ [][NextFilter]_vars

---------------------------------------------------------------------------
(* log_query.build_sql_query *)

NameComponent == <<"c", "o", "m", "p", "o", "n", "e", "n", "t">>
NameMessage == <<"m", "e", "s", "s", "a", "g", "e">>
NameTimestamp == <<"t", "i", "m", "e", "s", "t", "a", "m", "p">>
NameTs == <<"t", "s">>

\* the column a field name of the list ["component", "message", "timestamp"]
\* names
ColumnOf(field) ==
    IF field = NameComponent THEN "component"
    ELSE IF field = NameTimestamp THEN "timestamp"
    ELSE "message"

\* the query text is kept as tokens: a predicate "<column> <op> ?" (for
\* BETWEEN, "ts BETWEEN ? AND ?"), or one of the words AND, OR, ( and )
Predicate(column, op) == [t |-> "pred", column |-> column, op |-> op]
Keyword(word) == [t |-> word, column |-> "", op |-> ""]

\* the values bound to the placeholders
IntParam(n) == [kind |-> "int", int |-> n, text |-> <<>>]
TextParam(s) == [kind |-> "text", int |-> 0, text |-> s]

\* the value itself, without the % around it
ContainsUnwrapped(value) == TextParam(value)

\* f"%{value}%"
Contains(value) == TextParam(<<"%">> \o value \o <<"%">>)

\* "message {not_operator}LIKE ?" with its parameter
MessageLike(condition) ==
    [sql |-> Predicate("message", IF condition.negated THEN "NOT LIKE" ELSE "LIKE"),
     param |-> Contains(condition.value)]

\* a ts condition that keeps "=" when negated
TsEqualityIgnoringNegation(condition) ==
    [sql |-> Predicate("ts", "="), param |-> IntParam(PyInt(condition.value).val)]

\* "ts {equality_op} ?" with int(value) as its parameter
TsEquality(condition) ==
    [sql |-> Predicate("ts", IF condition.negated THEN "!=" ELSE "="),
     param |-> IntParam(PyInt(condition.value).val)]

\* an unknown field searched in the column of the same name
UnknownFieldAsColumn(condition) ==
    [sql |-> Predicate("component", IF condition.negated THEN "NOT LIKE" ELSE "LIKE"),
     param |-> Contains(condition.value)]

\* the branch for a field that is none of component, message, timestamp, ts
UnknownField(condition) == MessageLike(condition)

\* what one turn of the loop appends to current_filter_sql and params: None
\* when the condition is skipped by "continue"
ConditionSql(condition) ==
    IF condition.type = "field"
    THEN IF condition.field \in {NameComponent, NameMessage, NameTimestamp}
         THEN Some([sql |-> Predicate(ColumnOf(condition.field),
                                      IF condition.negated THEN "NOT LIKE" ELSE "LIKE"),
                    param |-> Contains(condition.value)])
         ELSE IF condition.field = NameTs
         THEN (IF PyInt(condition.value).ok
               THEN Some(TsEquality(condition))
               ELSE None)
         ELSE Some(UnknownField(condition))
    ELSE Some(MessageLike(condition))

\* what follows a sub-predicate in filter_parts: the condition's operator,
\* when it has one and is not the last condition
JoinWord(conds, i) ==
    IF conds[i].operator = Some("OR")
    THEN (IF i < Len(conds) THEN <<Keyword("OR")>> ELSE <<>>)
    ELSE (IF conds[i].operator = Some("AND") /\ i < Len(conds)
          THEN <<Keyword("AND")>>
          ELSE <<>>)

\* the for-loop over filters["conditions"], from condition i on
RECURSIVE FilterLoop(_, _, _, _)
FilterLoop(conds, i, filter_parts, ps) ==
    IF i > Len(conds) THEN [filter_parts |-> filter_parts, params |-> ps]
    ELSE LET sql == ConditionSql(conds[i])
         IN  IF sql = None
             THEN FilterLoop(conds, i + 1, filter_parts, ps)
             ELSE FilterLoop(conds, i + 1,
                             filter_parts \o <<sql[1].sql>> \o JoinWord(conds, i),
                             Append(ps, sql[1].param))

\* a WHERE clause whose filter clause is not put in parentheses
WhereUngrouped(filter_parts) ==
    <<Predicate("ts", "BETWEEN")>>
        \o (IF filter_parts # <<>> THEN <<Keyword("AND")>> \o filter_parts ELSE <<>>)

\* ' AND '.join(where_conditions): the window, then "(filter_clause)"
Where(filter_parts) ==
    <<Predicate("ts", "BETWEEN")>>
        \o (IF filter_parts # <<>>
            THEN <<Keyword("AND"), Keyword("(")>> \o filter_parts \o <<Keyword(")")>>
            ELSE <<>>)

\* "if limit: query += LIMIT": None and 0 add nothing
LimitClause(lim) == IF lim # None /\ lim[1] # 0 THEN lim ELSE None

\* build_sql_query(start_ts, end_ts, {"conditions": conds}, fields, limit)
build_sql_query(start, end, conds, fields, lim) ==
    LET loop == FilterLoop(conds, 1, <<>>, <<IntParam(start), IntParam(end)>>)
    IN  [query |-> [select |-> fields,
                    where |-> Where(loop.filter_parts),
                    order |-> "ts ASC",
                    limit |-> LimitClause(lim)],
         params |-> loop.params]

---------------------------------------------------------------------------
(* cursor.execute(query, params) and fetchall(): the query as SQLite runs it *)

\* text LIKE pattern in SQLite: % stands for any run of characters, _ for
\* any one character, and ASCII letters match without regard to case
RECURSIVE Like(_, _)
Like(pattern, text) ==
    IF pattern = <<>> THEN text = <<>>
    ELSE IF pattern[1] = "%"
    THEN \E k \in 0..Len(text) : Like(Tail(pattern), SubSeq(text, k + 1, Len(text)))
    ELSE /\ text # <<>>
         /\ (pattern[1] = "_" \/ UpperChar(pattern[1]) = UpperChar(text[1]))
         /\ Like(Tail(pattern), Tail(text))

\* the text of a column of a row
ColumnText(row, column) ==
    IF column = "component" THEN row.component
    ELSE IF column = "timestamp" THEN row.timestamp
    ELSE row.message

\* the number of "?" in a token
PlaceholdersOf(token) ==
    IF token.t # "pred" THEN 0 ELSE IF token.op = "BETWEEN" THEN 2 ELSE 1

\* the number of "?" in the first n tokens
RECURSIVE Placeholders(_, _)
Placeholders(tokens, n) ==
    IF n = 0 THEN 0 ELSE Placeholders(tokens, n - 1) + PlaceholdersOf(tokens[n])

\* a predicate on a row, its placeholders bound to ps[par], ps[par + 1]
PredicateHolds(token, ps, par, row) ==
    IF token.op = "BETWEEN" THEN ps[par].int <= row.ts /\ row.ts <= ps[par + 1].int
    ELSE IF token.op = "=" THEN row.ts = ps[par].int
    ELSE IF token.op = "!=" THEN row.ts # ps[par].int
    ELSE IF token.op = "LIKE" THEN Like(ps[par].text, ColumnText(row, token.column))
    ELSE ~Like(ps[par].text, ColumnText(row, token.column))

SqlFail == [ok |-> FALSE, val |-> FALSE, pos |-> 0]

\* SQL's expression grammar, AND binding tighter than OR:
\*   expr := term (OR term)*   term := factor (AND factor)*
\*   factor := predicate | "(" expr ")"
\* Each operator reads the tokens from position pos and returns the value
\* and the position after what it read.
RECURSIVE SqlExpr(_, _, _, _), SqlExprRest(_, _, _, _), SqlTerm(_, _, _, _),
          SqlTermRest(_, _, _, _), SqlFactor(_, _, _, _)

SqlFactor(tokens, ps, row, pos) ==
    IF pos > Len(tokens) THEN SqlFail
    ELSE IF tokens[pos].t = "pred"
    THEN [ok |-> TRUE,
          val |-> PredicateHolds(tokens[pos], ps, Placeholders(tokens, pos - 1) + 1, row),
          pos |-> pos + 1]
    ELSE IF tokens[pos].t = "("
    THEN LET inner == SqlExpr(tokens, ps, row, pos + 1)
         IN  IF inner.ok /\ inner.pos <= Len(tokens) /\ tokens[inner.pos].t = ")"
             THEN [inner EXCEPT !.pos = @ + 1]
             ELSE SqlFail
    ELSE SqlFail

SqlTermRest(tokens, ps, row, left) ==
    IF left.pos <= Len(tokens) /\ tokens[left.pos].t = "AND"
    THEN LET right == SqlFactor(tokens, ps, row, left.pos + 1)
         IN  IF right.ok
             THEN SqlTermRest(tokens, ps, row, [right EXCEPT !.val = left.val /\ @])
             ELSE SqlFail
    ELSE left

SqlTerm(tokens, ps, row, pos) ==
    LET first == SqlFactor(tokens, ps, row, pos)
    IN  IF first.ok THEN SqlTermRest(tokens, ps, row, first) ELSE SqlFail

SqlExprRest(tokens, ps, row, left) ==
    IF left.pos <= Len(tokens) /\ tokens[left.pos].t = "OR"
    THEN LET right == SqlTerm(tokens, ps, row, left.pos + 1)
         IN  IF right.ok
             THEN SqlExprRest(tokens, ps, row, [right EXCEPT !.val = left.val \/ @])
             ELSE SqlFail
    ELSE left

SqlExpr(tokens, ps, row, pos) ==
    LET first == SqlTerm(tokens, ps, row, pos)
    IN  IF first.ok THEN SqlExprRest(tokens, ps, row, first) ELSE SqlFail

\* a row to read the text against when the table is empty
BlankRow == [id |-> 0, ts |-> 0, timestamp |-> <<>>, component |-> <<>>, message |-> <<>>]

\* the statement prepares and binds: the WHERE text is an expression and
\* there is one parameter for each placeholder
Prepares(tokens, ps) ==
    /\ Placeholders(tokens, Len(tokens)) = Len(ps)
    /\ LET e == SqlExpr(tokens, ps, BlankRow, 1)
       IN  e.ok /\ e.pos = Len(tokens) + 1

\* the WHERE text holds of the row
WhereHolds(tokens, ps, row) == SqlExpr(tokens, ps, row, 1).val

\* the orders ORDER BY ts ASC may return a set of rows in: rows of equal ts
\* come in any order
RECURSIVE Orderings(_)
Orderings(S) ==
    IF S = {} THEN {<<>>}
    ELSE LET least == {r \in S : \A o \in S : r.ts <= o.ts}
         IN  UNION { { <<r>> \o rest : rest \in Orderings(S \ {r}) } : r \in least }

\* LIMIT n: the first n rows; a negative n is no limit
Limited(lim, ordered) ==
    IF lim = None \/ lim[1] < 0 \/ lim[1] >= Len(ordered) THEN ordered
    ELSE SubSeq(ordered, 1, lim[1])

\* the outcomes of cursor.execute(query, params) followed by fetchall()
Execute(q, ps, table) ==
    IF Placeholders(q.where, Len(q.where)) # Len(ps) THEN {Raise("ProgrammingError")}
    ELSE IF ~Prepares(q.where, ps) THEN {Raise("OperationalError")}
    ELSE LET matching == {table[i] : i \in {j \in 1..Len(table) :
                                               WhereHolds(q.where, ps, table[j])}}
         IN  { Ok(Limited(q.limit, o)) : o \in Orderings(matching) }

---------------------------------------------------------------------------
(* Queries: a filter is parsed, the query is built and run against a table *)

\* most conditions of a generated query filter
MaxConditions == 3

QueryErr == <<"E", "r", "r">>
QueryWarn == <<"w", "a", "r", "n">>
QueryWeb == <<"c", "o", "m", "p", "o", "n", "e", "n", "t", ":", "w", "e", "b">>
QueryBadTs == <<"t", "s", ":", "x">>
QueryNotTs == <<"!", "t", "s", ":", "1", "5", "0", "0">>
QueryLower == <<"e", "r", "r">>
QueryUnderscore == <<"a", "_", "b">>
QueryPercent == <<"%">>
QueryAbsent == <<"z", "z", "z">>
QueryTs == <<"t", "s", ":", "1", "5", "0", "0">>
QueryMessage == <<"m", "e", "s", "s", "a", "g", "e", ":", "w", "a", "r", "n">>
QueryStamp == <<"t", "i", "m", "e", "s", "t", "a", "m", "p", ":", "1", "6", ":", "4", "0">>
QueryUnknown == <<"l", "e", "v", "e", "l", ":", "w", "a", "r", "n">>
QueryCapital == <<"C", "o", "m", "p", "o", "n", "e", "n", "t", ":", "w", "e", "b">>
QueryNoField == <<":", "e", "r", "r">>
QueryUpperWeb == <<"c", "o", "m", "p", "o", "n", "e", "n", "t", ":", "W", "E", "B">>

MsgErr == <<"E", "r", "r", " ", "x">>
MsgUnderscore == <<"e", "r", "r", " ", "a", "_", "b">>
MsgAxb == <<"a", "x", "b">>
MsgWarn == <<"w", "a", "r", "n", " ", "5", "%">>
MsgLate == <<"e", "r", "r", " ", "l", "a", "t", "e">>
MsgEarly == <<"w", "a", "r", "n", " ", "w", "e", "b">>
CompReaper == <<"r", "e", "a", "p", "e", "r">>
CompWeb == <<"w", "e", "b">>
CompDb == <<"d", "b">>

\* a row of the logs table, its display string made as process_log_file
\* makes it
StoredRow(id, ts, component, message) ==
    [id |-> id, ts |-> ts,
     timestamp |-> DisplayTimestamp(CHOOSE z \in Zones : z.name = "UTC", ts),
     component |-> component, message |-> message]

\* the table: rows on both ends of the window and outside it, two of them
\* at the same instant
StoredLogs ==
    <<StoredRow(1, 1000, CompReaper, MsgErr),
      StoredRow(2, 1500, CompWeb, MsgUnderscore),
      StoredRow(3, 1500, CompWeb, MsgAxb),
      StoredRow(4, 2000, CompDb, MsgWarn),
      StoredRow(5, 2500, CompReaper, MsgLate),
      StoredRow(6, 999, CompWeb, MsgEarly)>>

\* field_list when neither --fields nor --withtime is given
DefaultFields == <<NameTimestamp, NameComponent, NameMessage>>

QueryJoinAtoms == {QueryErr, QueryWarn, QueryWeb, QueryBadTs, QueryNotTs}

QueryAtoms ==
    QueryJoinAtoms \cup
        {QueryLower, QueryUnderscore, QueryPercent, QueryAbsent, QueryTs,
         QueryMessage, QueryStamp, QueryUnknown, QueryCapital, QueryNoField,
         QueryUpperWeb}

QuerySeparators == {SepAnd, SepLowerOr}

\* filters of n conditions joined by AND and OR
RECURSIVE JoinedQueryFilters(_)
JoinedQueryFilters(n) ==
    IF n = 1 THEN QueryJoinAtoms
    ELSE { f \o sep \o a :
             f \in JoinedQueryFilters(n - 1), sep \in QuerySeparators, a \in QueryJoinAtoms }

QueryFilters ==
    UNION { JoinedQueryFilters(n) : n \in 1..MaxConditions }
        \cup QueryAtoms
        \cup { NotBanged(x) : x \in QueryAtoms \ {QueryNotTs} }
        \cup {AtomEmpty, FilterBlank}

QueryLimits == {None, Some(0), Some(2)}

\* the query command has its window, its limit and one filter, the table
\* is as ingestion left it
InitQuery ==
    /\ pc = "filter_call"
    /\ tz \in {z \in Zones : z.name = "UTC"}
    /\ reference_date = [year |-> 2023, month |-> 10, day |-> 15]
    /\ filter_expr \in QueryFilters
    /\ conditions = <<>>
    /\ logs = StoredLogs
    /\ start_ts = 1000
    /\ end_ts = 2000
    /\ limit \in QueryLimits
    /\ query = None
    /\ params = <<>>
    /\ selected = Pending
    /\ show_fields = FALSE
    /\ database_exists = TRUE
    /\ range = 0
    /\ filters = <<>>
    /\ fields_option = <<>>
    /\ withtime = FALSE
    /\ field_list = DefaultFields
    /\ exit_code = None
    /\ NoIngest /\ NoTimeCall /\ NoTsCall /\ NoBatch

\* build_sql_query returns
BuildQuery ==
    /\ pc = "filter_done"
    /\ LET built == build_sql_query(start_ts, end_ts, conditions, field_list, limit)
       IN  /\ query' = Some(built.query)
           /\ params' = built.params
    /\ pc' = "query_built"
    /\ UNCHANGED <<tz, reference_date, lines, idx, current_timestamp,
                   entries_processed, rows, time_str, time_result, ts_instant,
                   ts_text, ts_result, filter_expr, conditions, logs,
                   start_ts, end_ts, limit, selected>>
    /\ UNCHANGED commandVars
    /\ UNCHANGED <<batchVars, file_component>>

\* cursor.execute(query, params) and cursor.fetchall() return or raise
RunQuery ==
    /\ pc = "query_built"
    /\ selected' \in Execute(query[1], params, logs)
    /\ pc' = "query_done"
    /\ UNCHANGED <<tz, reference_date, lines, idx, current_timestamp,
                   entries_processed, rows, time_str, time_result, ts_instant,
                   ts_text, ts_result, filter_expr, conditions, logs,
                   start_ts, end_ts, limit, query, params>>
    /\ UNCHANGED commandVars
    /\ UNCHANGED <<batchVars, file_component>>

NextQuery == ParseFilter \/ BuildQuery \/ RunQuery

SpecQuery == InitQuery /\ [][NextQuery]_vars

---------------------------------------------------------------------------
(* log_query.main: the query command *)

\* most --filter options of a generated command line
MaxFilters == 2

NameId == <<"i", "d">>

\* field_list with --withtime
WithTimeFields == <<NameTimestamp, NameTs, NameComponent, NameMessage>>

\* get_available_fields(database): the columns of the logs table
AvailableFields == <<NameId, NameTs, NameTimestamp, NameComponent, NameMessage>>

\* [f.strip() for f in fields.split(",")], or the default lists
FieldList(fieldsOption, withTime) ==
    IF fieldsOption # <<>>
    THEN LET items == Split(fieldsOption, ",")
         IN  [i \in 1..Len(items) |-> Strip(items[i])]
    ELSE IF withTime THEN WithTimeFields
    ELSE DefaultFields

\* a validation that finds no invalid field
NoInvalidFields(list) == <<>>

\* invalid_fields = [f for f in field_list if f not in available_fields]
InvalidFields(list) ==
    SelectSeq(list, LAMBDA f : \A i \in 1..Len(AvailableFields) : AvailableFields[i] # f)

\* combined_filters["conditions"] after the loop over the first n filters
RECURSIVE CombinedConditions(_, _)
CombinedConditions(fs, n) ==
    IF n = 0 THEN <<>>
    ELSE CombinedConditions(fs, n - 1) \o parse_filter_expression(fs[n])

\* main from its first line to the call of build_sql_query: the exit code
\* when it ends before the call, and the locals it has assigned
PrepareOutcome ==
    LET target == parse_timestamp(tz, ts_text)
        list == FieldList(fields_option, withtime)
        untouched == [exit |-> None, target |-> ts_result, start |-> start_ts,
                      end |-> end_ts, conditions |-> conditions, list |-> field_list]
    IN  IF show_fields THEN [untouched EXCEPT !.exit = Some(0)]
        ELSE IF ts_text = <<>> THEN [untouched EXCEPT !.exit = Some(1)]
        ELSE IF ~database_exists THEN [untouched EXCEPT !.exit = Some(1)]
        ELSE IF ~target.ok THEN [untouched EXCEPT !.exit = Some(1), !.target = target]
        ELSE [exit |-> IF InvalidFields(list) # <<>> THEN Some(1) ELSE None,
              target |-> target,
              start |-> target.val - range,
              end |-> target.val + range,
              conditions |-> CombinedConditions(filters, Len(filters)),
              list |-> list]

\* main runs up to the call of build_sql_query, or exits before it
PrepareQuery ==
    /\ pc = "command"
    /\ LET out == PrepareOutcome
       IN  /\ exit_code' = out.exit
           /\ ts_result' = out.target
           /\ start_ts' = out.start
           /\ end_ts' = out.end
           /\ conditions' = out.conditions
           /\ field_list' = out.list
           /\ pc' = IF out.exit = None THEN "filter_done" ELSE "exited"
    /\ UNCHANGED <<tz, reference_date, lines, idx, current_timestamp,
                   entries_processed, rows, time_str, time_result, ts_instant,
                   ts_text, filter_expr, logs, limit, query, params, selected,
                   show_fields, database_exists, range, filters, fields_option, withtime>>
    /\ UNCHANGED <<batchVars, file_component>>

\* main after fetchall(): the rows are shown, or "No matching log entries
\* found." and sys.exit(0); a sqlite3.Error is reported and sys.exit(1)
FinishCommand ==
    /\ pc = "query_done"
    /\ exit_code' = IF selected.ok THEN Some(0) ELSE Some(1)
    /\ pc' = "exited"
    /\ UNCHANGED <<tz, reference_date, lines, idx, current_timestamp,
                   entries_processed, rows, time_str, time_result, ts_instant,
                   ts_text, ts_result, filter_expr, conditions>>
    /\ UNCHANGED queryVars
    /\ UNCHANGED <<show_fields, database_exists, range, filters, fields_option, withtime,
                   field_list>>
    /\ UNCHANGED <<batchVars, file_component>>

StampUnix == <<"1", "5", "0", "0">>
StampBad == <<"b", "a", "d">>
FieldsTsMessage == <<"t", "s", ",", " ", "m", "e", "s", "s", "a", "g", "e">>
FieldsBogus == <<"b", "o", "g", "u", "s">>
FieldsEmptyItem == <<"t", "s", ",", ",", "m", "e", "s", "s", "a", "g", "e">>
CommandOr == <<"E", "r", "r", " ", "o", "r", " ", "w", "a", "r", "n">>

\* the TIMESTAMP argument: missing, a UNIX instant, no timestamp
CommandStamps == {<<>>, StampUnix, StampBad}

\* --range is an int option: click accepts any integer
CommandRanges == {-5, 0, 600}

CommandFilters == {QueryErr, QueryWeb, CommandOr}

\* the sequences of n --filter options
RECURSIVE FilterOptions(_)
FilterOptions(n) ==
    IF n = 0 THEN {<<>>}
    ELSE { Append(fs, f) : fs \in FilterOptions(n - 1), f \in CommandFilters }

CommandFields == {<<>>, FieldsTsMessage, FieldsBogus, FieldsEmptyItem}

CommandLimits == {None, Some(2)}

\* log_query.main is entered with its arguments
InitCommand ==
    /\ pc = "command"
    /\ tz \in {z \in Zones : z.name = "UTC"}
    /\ reference_date = [year |-> 2023, month |-> 10, day |-> 15]
    /\ show_fields \in BOOLEAN
    /\ ts_text \in CommandStamps
    /\ database_exists \in BOOLEAN
    /\ range \in CommandRanges
    /\ filters \in UNION { FilterOptions(n) : n \in 0..MaxFilters }
    /\ fields_option \in CommandFields
    /\ withtime \in BOOLEAN
    /\ limit \in CommandLimits
    /\ logs = StoredLogs
    /\ field_list = <<>>
    /\ exit_code = None
    /\ ts_instant = None
    /\ ts_result = Pending
    /\ start_ts = 0
    /\ end_ts = 0
    /\ query = None
    /\ params = <<>>
    /\ selected = Pending
    /\ NoIngest /\ NoTimeCall /\ NoFilterCall /\ NoBatch

NextCommand == PrepareQuery \/ BuildQuery \/ RunQuery \/ FinishCommand

SpecCommand == InitCommand /\ [][NextCommand]_vars

---------------------------------------------------------------------------
(* log_analyzer.main: the batch over the discovered files *)

\* most files discover_log_files returns
MaxFiles == 2

\* extract_component_name(log_file) of the files, in discovery order
BatchComponents == <<"reaper", "web", "db", "api">>

\* a file open() and readlines() read whole
ReadableFile(content) == [readable |-> TRUE, lines |-> content]

\* a path open() raises on: a directory named x.log, a file without read
\* permission
UnreadableFile == [readable |-> FALSE, lines |-> <<>>]

FileB == <<RawLine(LineB)>>
FileOrphanB == <<RawLine(LineOrphan), RawLine(LineB)>>
FileBOrphan == <<RawLine(LineB), RawLine(LineOrphan)>>
FileBEarlier == <<RawLine(LineB), RawLine(LineEarlier)>>

BatchFiles ==
    {UnreadableFile} \cup
        {ReadableFile(f) : f \in {<<>>, FileB, FileOrphanB, FileBOrphan, FileBEarlier}}

\* the rows of the files taken so far, in insertion order
RECURSIVE Flatten(_, _)
Flatten(perFile, n) ==
    IF n = 0 THEN <<>> ELSE Flatten(perFile, n - 1) \o perFile[n]

\* a call that starts from the instant the previous call ended with
InitialTimestampCarried(previous) == previous

\* "current_timestamp = None" at the top of process_log_file
InitialTimestamp(previous) == None

\* a batch that stops at the first file that fails
AfterFailureStop == "stopped"

\* "continue" in the except clause: the loop takes the next file
AfterFailure == "batch"

\* the for-loop of main takes the next file and calls process_log_file, which
\* initialises its locals and reads the file, or raises from open()
StartFile ==
    /\ pc = "batch"
    /\ file_no < Len(log_files)
    /\ file_no' = file_no + 1
    /\ file_component' = BatchComponents[file_no + 1]
    /\ entries_processed' = 0
    /\ current_timestamp' = InitialTimestamp(current_timestamp)
    /\ rows' = <<>>
    /\ idx' = 0
    /\ LET file == log_files[file_no + 1]
       IN  IF file.readable
           THEN /\ lines' = file.lines
                /\ pc' = "loop"
           ELSE /\ lines' = <<>>
                /\ pc' = "raised"
    /\ UNCHANGED <<log_files, inserted, outcomes, total_entries, committed>>
    /\ UNCHANGED <<tz, reference_date, time_str, time_result, ts_instant, ts_text,
                   ts_result, filter_expr, conditions>>
    /\ UNCHANGED queryVars
    /\ UNCHANGED commandVars

\* cursor.execute of the INSERT raises a sqlite3.Error (database full or
\* locked, a constraint of an existing table): the rows inserted so far stay in
\* the open transaction and the exception leaves process_log_file
InsertFails ==
    /\ pc = "loop"
    /\ idx < Len(lines)
    /\ LET line == CurrentLine
           stamp == LineTimestamp(tz, line, reference_date, current_timestamp)
       IN  /\ line # <<>>
           /\ stamp.ok
           /\ HasTimestamp(stamp.val)
           /\ current_timestamp' = stamp.val
    /\ idx' = idx + 1
    /\ pc' = "raised"
    /\ UNCHANGED <<lines, entries_processed, rows, file_component>>
    /\ UNCHANGED batchVars
    /\ UNCHANGED <<tz, reference_date, time_str, time_result, ts_instant, ts_text,
                   ts_result, filter_expr, conditions>>
    /\ UNCHANGED queryVars
    /\ UNCHANGED commandVars

\* "total_entries += entries" after process_log_file returned
CountEntries ==
    /\ pc = "returned"
    /\ total_entries' = total_entries + entries_processed
    /\ outcomes' = Append(outcomes, Ok(entries_processed))
    /\ inserted' = Append(inserted, rows)
    /\ pc' = "batch"
    /\ UNCHANGED <<lines, idx, current_timestamp, entries_processed, rows,
                   file_component, log_files, file_no, committed>>
    /\ UNCHANGED <<tz, reference_date, time_str, time_result, ts_instant, ts_text,
                   ts_result, filter_expr, conditions>>
    /\ UNCHANGED queryVars
    /\ UNCHANGED commandVars

\* "except Exception as e": the error is reported and the loop continues;
\* nothing is rolled back
ReportError ==
    /\ pc = "raised"
    /\ outcomes' = Append(outcomes, Raise("Exception"))
    /\ inserted' = Append(inserted, rows)
    /\ pc' = AfterFailure
    /\ UNCHANGED <<lines, idx, current_timestamp, entries_processed, rows,
                   file_component, log_files, file_no, total_entries, committed>>
    /\ UNCHANGED <<tz, reference_date, time_str, time_result, ts_instant, ts_text,
                   ts_result, filter_expr, conditions>>
    /\ UNCHANGED queryVars
    /\ UNCHANGED commandVars

\* conn.commit() and conn.close() after the loop: the one commit of the run
CommitAndClose ==
    /\ pc = "batch"
    /\ log_files # <<>>
    /\ file_no = Len(log_files)
    /\ committed' = Flatten(inserted, Len(inserted))
    /\ pc' = "closed"
    /\ UNCHANGED <<lines, idx, current_timestamp, entries_processed, rows,
                   file_component, log_files, file_no, inserted, outcomes,
                   total_entries>>
    /\ UNCHANGED <<tz, reference_date, time_str, time_result, ts_instant, ts_text,
                   ts_result, filter_expr, conditions>>
    /\ UNCHANGED queryVars
    /\ UNCHANGED commandVars

\* "if not log_files": conn.close() and return
NoLogFiles ==
    /\ pc = "batch"
    /\ log_files = <<>>
    /\ pc' = "closed"
    /\ UNCHANGED <<lines, idx, current_timestamp, entries_processed, rows,
                   file_component>>
    /\ UNCHANGED batchVars
    /\ UNCHANGED <<tz, reference_date, time_str, time_result, ts_instant, ts_text,
                   ts_result, filter_expr, conditions>>
    /\ UNCHANGED queryVars
    /\ UNCHANGED commandVars

\* main has set up the database and discovered the files
InitBatch ==
    /\ pc = "batch"
    /\ tz \in IngestZones
    /\ reference_date \in IngestDates
    /\ log_files \in UNION { [1..n -> BatchFiles] : n \in 0..MaxFiles }
    /\ file_no = 0
    /\ inserted = <<>>
    /\ outcomes = <<>>
    /\ total_entries = 0
    /\ committed = <<>>
    /\ NoIngest /\ NoTimeCall /\ NoTsCall /\ NoFilterCall /\ NoQuery /\ NoCommand

NextBatch ==
    \/ StartFile
    \/ ProcessLine
    \/ InsertFails
    \/ ReturnEntries
    \/ CountEntries
    \/ ReportError
    \/ CommitAndClose
    \/ NoLogFiles

SpecBatch == InitBatch /\ [][NextBatch]_vars

\* an iteration of "for line in lines" can be taken: the guard of ProcessLine,
\* which has a successor for every line
LinePending == pc = "loop" /\ idx < Len(lines)

\* weak fairness of the iterations of the line loop, with the enabling
\* condition written as its guard
LineFairness == []<>(~LinePending) \/ []<><<ProcessLine \/ InsertFails>>_vars

\* the steps of main and process_log_file outside the line loop
BatchStep ==
    \/ StartFile
    \/ ReturnEntries
    \/ CountEntries
    \/ ReportError
    \/ CommitAndClose
    \/ NoLogFiles

\* main is sequential code: it keeps running while it has a step to take
SpecBatchFair == SpecBatch /\ WF_vars(BatchStep) /\ LineFairness

---------------------------------------------------------------------------
(* Properties of process_log_file, stated on the lines consumed so far *)

Content(k) == RStripNewlines(lines[k])

Stamped(k) == TimestampMatch(Content(k)).matched

\* the last timestamped line among the first k lines, 0 when there is none
LastStamped(k) ==
    IF \E j \in 1..k : Stamped(j)
    THEN CHOOSE j \in 1..k : Stamped(j) /\ \A i \in (j + 1)..k : ~Stamped(i)
    ELSE 0

\* the instant parse_time_to_unix_timestamp gives the time token of line j
StampInstant(j) ==
    parse_time_to_unix_timestamp(tz, SubSeq(Content(j), 1, 12), reference_date).val

\* the number of non-empty lines among the first k that follow, or are, the
\* first timestamped line: the position of line k's record
RowIndex(k) ==
    Cardinality({j \in 1..k : Content(j) # <<>> /\ LastStamped(j) > 0})

\* line k is a non-empty line without a timestamp prefix
Unstamped(k) == Content(k) # <<>> /\ ~Stamped(k)

\* C1: while no consumed line has matched the timestamp-prefix pattern, the
\* unstamped lines consumed so far have all been discarded: no row has been
\* inserted, the count is still 0 and current_timestamp is still None.
C1_OrphansDiscarded ==
    (pc \in {"loop", "returned"} /\ LastStamped(idx) = 0)
        => /\ rows = <<>>
           /\ entries_processed = 0
           /\ current_timestamp = None

\* two orphan lines consumed, a timestamped line still ahead
C1_Witness ==
    /\ pc = "loop"
    /\ idx = 2
    /\ Len(lines) = 3
    /\ Unstamped(1) /\ Unstamped(2)
    /\ Content(3) = LineB
    /\ rows = <<>>
    /\ current_timestamp = None

\* C2: every consumed continuation line (non-empty, no timestamp prefix, a
\* timestamped line before it) has exactly one row, at its own position among
\* the rows, holding the instant of the most recent timestamped line before it
\* and the whole line as message; the current instant is left as it was.
C2_ContinuationUnderCurrentInstant ==
    pc \in {"loop", "returned"} =>
        /\ Len(rows) = RowIndex(idx)
        /\ \A k \in 1..idx :
              (Unstamped(k) /\ LastStamped(k) > 0) =>
                  /\ rows[RowIndex(k)].ts = StampInstant(LastStamped(k))
                  /\ rows[RowIndex(k)].message = Content(k)
        /\ (idx >= 1 /\ Unstamped(idx) /\ LastStamped(idx) > 0)
              => current_timestamp = Some(StampInstant(LastStamped(idx)))

\* a timestamped line followed by two continuation lines
C2_Witness ==
    /\ idx = 3
    /\ Content(1) = LineB
    /\ Content(2) = LineOrphan
    /\ Content(3) = LineBlank
    /\ Len(rows) = 3
    /\ rows[2].message = LineOrphan
    /\ rows[3].message = LineBlank
    /\ rows[3].ts = rows[1].ts

\* C3: every consumed timestamped line has exactly one row, holding the instant
\* parse_time_to_unix_timestamp gives its time token on the reference date and
\* the rest of the line after the token and the whitespace as message; the
\* current instant is that of the last timestamped line consumed, whatever the
\* instant before it was.
C3_StampedLineStartsEntry ==
    pc \in {"loop", "returned"} =>
        /\ Len(rows) = RowIndex(idx)
        /\ entries_processed = Len(rows)
        /\ \A k \in 1..idx :
              Stamped(k) =>
                  /\ rows[RowIndex(k)].ts = StampInstant(k)
                  /\ rows[RowIndex(k)].message =
                        LStrip(SubSeq(Content(k), 13, Len(Content(k))))
        /\ LastStamped(idx) > 0
              => current_timestamp = Some(StampInstant(LastStamped(idx)))

\* a later instant, then an earlier one after a run of whitespace
C3_Witness ==
    /\ idx = 2
    /\ Content(1) = LineB
    /\ Content(2) = LineEarlier
    /\ Len(rows) = 2
    /\ rows[1].message = <<"B">>
    /\ rows[2].ts < rows[1].ts
    /\ rows[2].message = <<"C", " ">>
    /\ current_timestamp = Some(rows[2].ts)

\* a raw line made of line terminators only
BlankRaw(raw) == \A i \in 1..Len(raw) : raw[i] \in {"\n", "\r"}

\* C4: consuming a line that is empty once its trailing newline characters are
\* stripped inserts no row and leaves the count and the current instant as
\* they were, in NoTimestampSeen and in HaveTimestamp.
C4_EmptyLineSkipped ==
    [][(pc = "loop" /\ idx < Len(lines) /\ BlankRaw(lines[idx + 1]))
          => /\ rows' = rows
             /\ entries_processed' = entries_processed
             /\ current_timestamp' = current_timestamp
             /\ pc' = pc]_vars

\* an empty line consumed in HaveTimestamp
C4_Witness ==
    /\ idx = 2
    /\ Content(1) = LineB
    /\ BlankRaw(lines[2])
    /\ Len(rows) = 1
    /\ current_timestamp = Some(rows[1].ts)

\* C5: a line whose leading token is not a valid HH:MM:SS.mmm time of day never
\* makes process_log_file raise; before any timestamped line it is discarded,
\* after one it is stored whole under the current instant, and it leaves the
\* current instant as it was.
C5_InvalidStampIsUnstamped ==
    /\ pc # "raised"
    /\ \A k \in 1..idx :
          Content(k) \in InvalidStampLines =>
              /\ LastStamped(k) = LastStamped(k - 1)
              /\ LastStamped(k) = 0 => RowIndex(k) = RowIndex(k - 1)
              /\ LastStamped(k) > 0 =>
                    /\ RowIndex(k) = RowIndex(k - 1) + 1
                    /\ RowIndex(k) <= Len(rows)
                    /\ rows[RowIndex(k)].message = Content(k)
                    /\ rows[RowIndex(k)].ts = StampInstant(LastStamped(k))
    /\ (idx >= 1 /\ Content(idx) \in InvalidStampLines) =>
          /\ Len(rows) = RowIndex(idx)
          /\ current_timestamp =
                (IF LastStamped(idx) = 0 THEN None
                 ELSE Some(StampInstant(LastStamped(idx))))

\* an invalid hour discarded, then an invalid minute stored as a continuation
C5_Witness ==
    /\ idx = 3
    /\ Content(1) = LineHour25
    /\ Content(2) = LineB
    /\ Content(3) = LineMinute60
    /\ Len(rows) = 2
    /\ rows[2].message = LineMinute60
    /\ rows[2].ts = rows[1].ts

---------------------------------------------------------------------------
(* Properties of parse_time_to_unix_timestamp *)

\* the text has the shape dd:dd:dd.ddd
PatternShaped(str) ==
    /\ Len(str) = 12
    /\ \A i \in {1, 2, 4, 5, 7, 8, 10, 11, 12} : IsDigit(str[i])
    /\ str[3] = ":" /\ str[6] = ":" /\ str[9] = "."

\* the number written by the two digits at positions i and i + 1
TwoDigits(str, i) == 10 * DigitVal(str[i]) + DigitVal(str[i + 1])

\* a valid HH:MM:SS.mmm
ValidTimeOfDay(str) ==
    /\ PatternShaped(str)
    /\ TwoDigits(str, 1) <= 23
    /\ TwoDigits(str, 4) <= 59
    /\ TwoDigits(str, 7) <= 59

\* C6: for a valid HH:MM:SS.mmm the call succeeds and the instant it returns
\* reads HH, MM, SS on the reference date; the milliseconds never advance the
\* second.
C6_ValidTimeKeepsWallClock ==
    (pc = "time_done" /\ ValidTimeOfDay(time_str)) =>
        /\ time_result.ok
        /\ LET shown == FromTimestamp(tz, time_result.val)
           IN  /\ shown.year = reference_date.year
               /\ shown.month = reference_date.month
               /\ shown.day = reference_date.day
               /\ shown.hour = TwoDigits(time_str, 1)
               /\ shown.minute = TwoDigits(time_str, 4)
               /\ shown.second = TwoDigits(time_str, 7)

RECURSIVE CountChar(_, _)
CountChar(str, c) ==
    IF str = <<>> THEN 0
    ELSE (IF str[1] = c THEN 1 ELSE 0) + CountChar(Tail(str), c)

\* the text after the second colon, up to the third colon if there is one
RECURSIVE AfterColons(_, _)
AfterColons(str, n) ==
    IF str = <<>> THEN <<>>
    ELSE IF n = 0
         THEN (IF str[1] = ":" THEN <<>> ELSE <<str[1]>> \o AfterColons(Tail(str), 0))
         ELSE AfterColons(Tail(str), IF str[1] = ":" THEN n - 1 ELSE n)

\* a component is out of range in a text of the shape dd:dd:dd.ddd
OutOfRange(str) == PatternShaped(str) /\ ~ValidTimeOfDay(str)

\* one of the four components is missing: fewer than two colons, or no dot
\* in the seconds part
MissingComponent(str) ==
    \/ CountChar(str, ":") < 2
    \/ CountChar(AfterColons(str, 2), ".") = 0

\* C7 as claimed: the call fails for every text that is not of the shape
\* dd:dd:dd.ddd and for every text with an out-of-range component.
C7_FailsOffPattern ==
    (pc = "time_done" /\ (~PatternShaped(time_str) \/ OutOfRange(time_str)))
        => ~time_result.ok

\* C7 as amended: the call fails for every text with an out-of-range component
\* (HH = 24, MM = 60, SS = 60), for every text that lacks one of the four
\* components and for every text with a letter in it; the digit counts and
\* surrounding whitespace are not checked by the call itself.
C7_FailsOnBadComponents ==
    (pc = "time_done"
        /\ \/ OutOfRange(time_str)
           \/ MissingComponent(time_str)
           \/ \E i \in 1..Len(time_str) : time_str[i] \in {"a", "b", "c", "d", "e", "f", "g", "h", "i"})
        => ~time_result.ok

\* hour 24 is refused by the range check
C7_Witness ==
    /\ pc = "time_done"
    /\ time_str = TimeHour24
    /\ time_result = Raise("ValueError")

---------------------------------------------------------------------------
(* Properties of parse_timestamp *)

\* an integer literal: an optional sign, then digits only
IntLiteral(str) ==
    /\ str # <<>>
    /\ LET digits == IF str[1] \in {"+", "-"} THEN Tail(str) ELSE str
       IN  digits # <<>> /\ \A i \in 1..Len(digits) : IsDigit(digits[i])

IntLiteralValue(str) ==
    IF str[1] = "-" THEN 0 - DigitsValue(Tail(str))
    ELSE IF str[1] = "+" THEN DigitsValue(Tail(str))
    ELSE DigitsValue(str)

\* the instant of a text read in one layout, as an outcome
LayoutInstant(text, layout) ==
    LET dt == Strptime(text, layout)
    IN  IF dt.ok THEN Ok(Mktime(tz, WallSeconds(dt.val))) ELSE dt

\* C8: an integer literal (once trimmed) gives that integer; any other text
\* gives the instant of the first of the layouts YYYY-MM-DDTHH:MM:SS,
\* YYYY-MM-DDTHH:MM:SSZ, YYYY-MM-DD HH:MM:SS that it matches; a text that
\* matches none, the empty text included, is refused with an error.
C8_IntegerThenLayouts ==
    pc = "ts_done" =>
        LET text == Strip(ts_text)
            asT == LayoutInstant(text, LayoutT)
            asTZ == LayoutInstant(text, LayoutTZ)
            asSpace == LayoutInstant(text, LayoutSpace)
        IN  IF IntLiteral(text) THEN ts_result = Ok(IntLiteralValue(text))
            ELSE IF asT.ok THEN ts_result = asT
            ELSE IF asTZ.ok THEN ts_result = asTZ
            ELSE IF asSpace.ok THEN ts_result = asSpace
            ELSE ~ts_result.ok /\ ts_result.err = "ValueError"

\* a padded display string read in the Z layout, in UTC
C8_Witness ==
    /\ pc = "ts_done"
    /\ tz.name = "UTC"
    /\ ts_text = TextPaddedIso
    /\ ts_result = Ok(1697381136)

\* C9: the display string stored for an instant parses back to that instant.
C9_RoundTrip ==
    (pc = "ts_done" /\ ts_instant # None) => ts_result = Ok(ts_instant[1])

---------------------------------------------------------------------------
(* Properties of parse_filter_expression *)

\* the operands and the operator tokens of the split of a filter; the empty
\* filter has no operand
SplitParts(expr) == IF expr = <<>> THEN <<>> ELSE SplitOperators(expr, <<>>)

OperandCount(expr) == (Len(SplitParts(expr)) + 1) \div 2

Operand(expr, k) == SplitParts(expr)[2 * k - 1]

OperatorToken(expr, k) == SplitParts(expr)[2 * k]

\* AND for the tokens and, And, AND, ..., &&; OR for or, Or, OR, ..., ||
Normalised(token) ==
    IF token = SignAnd \/ Upper(token) = WordAnd THEN "AND" ELSE "OR"

\* C10: the parse yields one condition per operand of the split on
\* whitespace-delimited AND / OR / && / ||, in the operands' order; every
\* condition but the last records the operator token that follows it, as AND
\* or OR, and the last condition records no operator.
C10_OneConditionPerOperand ==
    pc = "filter_done" =>
        LET n == OperandCount(filter_expr)
        IN  /\ Len(conditions) = n
            /\ \A k \in 1..n :
                  /\ conditions[k].operator =
                        (IF k < n THEN Some(Normalised(OperatorToken(filter_expr, k)))
                         ELSE None)
                  /\ LET neg == Negation(Strip(Operand(filter_expr, k)))
                     IN  conditions[k] =
                            ConditionOf(neg.clean, neg.negated, conditions[k].operator)

\* three operands joined by && and by a lower-case "or" between wide gaps
C10_Witness ==
    /\ pc = "filter_done"
    /\ filter_expr = AtomError \o SepSignAnd \o AtomField \o SepWideOr \o AtomBang
    /\ Len(conditions) = 3
    /\ conditions[1].operator = Some("AND")
    /\ conditions[1].value = AtomError
    /\ conditions[2].operator = Some("OR")
    /\ conditions[2].type = "field"
    /\ conditions[3].operator = None
    /\ conditions[3].negated

\* the filter is one operand: the split finds no operator
SingleOperand(expr) == expr # <<>> /\ OperandCount(expr) = 1

\* C11: for every atom x, not(x), NOT x and !x parse to one condition with
\* the kind, field and value x alone parses to and negated = true, and x
\* alone parses to one condition with negated = false.
C11_NegationSpellingsAgree ==
    pc = "filter_done" =>
        \A x \in NegationAtoms :
            LET alone == parse_filter_expression(x)
            IN  /\ filter_expr = x =>
                      Len(conditions) = 1 /\ ~conditions[1].negated
                /\ filter_expr \in {NotWrapped(x), NotWorded(x), NotBanged(x)} =>
                      /\ Len(conditions) = 1
                      /\ Len(alone) = 1
                      /\ conditions[1] = [alone[1] EXCEPT !.negated = TRUE]

\* the token has one of the three negation spellings: not(...) around the
\* whole token, a leading "!", or a leading NOT followed by whitespace
SpelledNegated(token) ==
    \/ /\ StartsWith(token, WordNot)
       /\ Len(token) >= 6
       /\ token[4] = "("
       /\ token[Len(token)] = ")"
    \/ token # <<>> /\ token[1] = "!"
    \/ StartsWith(token, WordNot) /\ Len(token) >= 4 /\ IsSpace(token[4])

\* C12: a token is parsed as negated only when it is wrapped as not(...),
\* starts with "!" or starts with NOT followed by whitespace; any other token
\* is parsed with negated = false and its own text as the atom.
C12_NegatedOnlyWhenSpelled ==
    (pc = "filter_done" /\ SingleOperand(filter_expr)) =>
        LET token == Strip(filter_expr)
        IN  /\ Len(conditions) = 1
            /\ conditions[1].negated => SpelledNegated(token)
            /\ ~SpelledNegated(token) =>
                  conditions[1] = ConditionOf(token, FALSE, None)

\* the atom of operand k: what is left of it after negation stripping
Atom(expr, k) == Negation(Strip(Operand(expr, k))).clean

\* the text of the atom before its first colon, and the text after it
BeforeColon(atom) == SubSeq(atom, 1, FirstColon(atom) - 1)
AfterColon(atom) == SubSeq(atom, FirstColon(atom) + 1, Len(atom))

\* C13 as stated: an atom with a colon becomes a field condition whose field
\* is the text before the first colon and whose value is everything after
\* it; an atom without a colon becomes a general condition whose value is
\* the whole atom.
C13_SplitsAtFirstColon ==
    pc = "filter_done" =>
        \A k \in 1..OperandCount(filter_expr) :
            LET atom == Atom(filter_expr, k)
            IN  IF FirstColon(atom) > 0
                THEN /\ conditions[k].type = "field"
                     /\ conditions[k].field = BeforeColon(atom)
                     /\ conditions[k].value = AfterColon(atom)
                ELSE /\ conditions[k].type = "general"
                     /\ conditions[k].value = atom

\* C13, amended: as above, with the field and the value each trimmed of the
\* whitespace around them.
C13_SplitsAtFirstColonTrimmed ==
    pc = "filter_done" =>
        \A k \in 1..OperandCount(filter_expr) :
            LET atom == Atom(filter_expr, k)
            IN  IF FirstColon(atom) > 0
                THEN /\ conditions[k].type = "field"
                     /\ conditions[k].field = Strip(BeforeColon(atom))
                     /\ conditions[k].value = Strip(AfterColon(atom))
                ELSE /\ conditions[k].type = "general"
                     /\ conditions[k].value = atom

\* "NOT a:b:c" parsed: the later colon stays in the value
C13_Witness ==
    /\ pc = "filter_done"
    /\ filter_expr = FilterNotColons
    /\ Len(conditions) = 1
    /\ conditions[1].type = "field"
    /\ conditions[1].field = <<"a">>
    /\ conditions[1].value = <<"b", ":", "c">>
    /\ conditions[1].negated

\* C14: a filter that is empty after trimming whitespace parses to the empty
\* condition sequence.
C14_BlankFilterGivesNoConditions ==
    (pc = "filter_done" /\ Strip(filter_expr) = <<>>) => conditions = <<>>

---------------------------------------------------------------------------
(* Properties of build_sql_query and of the rows its query selects *)

\* the query has been built
Built == pc \in {"query_built", "query_done"}

\* the query returned its rows and had no LIMIT
Fetched == pc = "query_done" /\ selected.ok

\* the ids of the rows returned
SelectedIds == {selected.val[i].id : i \in 1..Len(selected.val)}

\* the rows of the table whose instant lies in the window
InWindow == {logs[i] : i \in {j \in 1..Len(logs) : start_ts <= logs[j].ts /\ logs[j].ts <= end_ts}}

\* the filter clause of the built query: the tokens between "(" and ")"
FilterClause ==
    IF Len(query[1].where) <= 1 THEN <<>>
    ELSE SubSeq(query[1].where, 4, Len(query[1].where) - 1)

\* C15: every row the built query selects has its instant within
\* [start_ts, end_ts]: the window predicate comes first and the filter
\* clause, when there is one, is conjoined with it as one parenthesised group.
C15_SelectedWithinWindow ==
    /\ Fetched =>
          \A i \in 1..Len(selected.val) :
              start_ts <= selected.val[i].ts /\ selected.val[i].ts <= end_ts
    /\ Built =>
          LET where == query[1].where
          IN  /\ where[1] = Predicate("ts", "BETWEEN")
              /\ params[1] = IntParam(start_ts)
              /\ params[2] = IntParam(end_ts)
              /\ Len(where) > 1 =>
                    /\ where[2] = Keyword("AND")
                    /\ where[3] = Keyword("(")
                    /\ where[Len(where)] = Keyword(")")
                    /\ \A i \in 1..Len(FilterClause) : FilterClause[i].t \notin {"(", ")"}

\* "Err or warn": rows matching either branch lie outside the window and
\* are not selected
C15_Witness ==
    /\ Fetched
    /\ filter_expr = QueryErr \o SepLowerOr \o QueryWarn
    /\ limit = None
    /\ SelectedIds = {1, 2, 4}
    /\ \E i \in 1..Len(logs) : logs[i].id = 5 /\ Like(params[3].text, logs[i].message)
    /\ \E i \in 1..Len(logs) : logs[i].id = 6 /\ Like(params[4].text, logs[i].message)

\* v occurs in text as it is written, letter case included
Substring(v, text) ==
    \E k \in 1..(Len(text) - Len(v) + 1) : SubSeq(text, k, k + Len(v) - 1) = v

\* the column a condition targets: its field when that is component, message
\* or timestamp, else message
TargetColumn(c) ==
    IF c.type = "field" /\ c.field \in {NameComponent, NameTimestamp}
    THEN ColumnOf(c.field)
    ELSE "message"

\* a general condition, or a field condition on component, message or timestamp
TextCondition(c) ==
    c.type = "general" \/ c.field \in {NameComponent, NameMessage, NameTimestamp}

\* C16: a non-negated condition with value v on a text field selects, within
\* the window, exactly the records in which v occurs in that field as a
\* literal, case-sensitive substring.
C16_LiteralCaseSensitiveSubstring ==
    (/\ Fetched
     /\ limit = None
     /\ Len(conditions) = 1
     /\ TextCondition(conditions[1])
     /\ ~conditions[1].negated)
    => SelectedIds =
          {r.id : r \in {w \in InWindow :
                            Substring(conditions[1].value,
                                      ColumnText(w, TargetColumn(conditions[1])))}}

\* condition k is a ts condition whose value is not an integer
SkippedTs(k) ==
    /\ conditions[k].type = "field"
    /\ conditions[k].field = NameTs
    /\ ~PyInt(conditions[k].value).ok

\* predicates and join operators alternate, a predicate first and last
WellJoined(clause) ==
    /\ clause # <<>> => Len(clause) % 2 = 1
    /\ \A i \in 1..Len(clause) :
          IF i % 2 = 1 THEN clause[i].t = "pred" ELSE clause[i].t \in {"AND", "OR"}

\* C17: when a ts condition has a non-integer value, at any position, the
\* query has no predicate and no parameter for it and the remaining
\* sub-predicates are joined by exactly one operator between each adjacent
\* pair, none leading or trailing.
C17_SkippedTsLeavesWellFormedClause ==
    (Built /\ \E k \in 1..Len(conditions) : SkippedTs(k)) =>
        LET kept == Cardinality({k \in 1..Len(conditions) : ~SkippedTs(k)})
        IN  /\ Cardinality({i \in 1..Len(FilterClause) : FilterClause[i].t = "pred"}) = kept
            /\ Len(params) = 2 + kept
            /\ WellJoined(FilterClause)

\* the filter is one condition and the query has its sub-predicate: the
\* WHERE text is "ts BETWEEN ? AND ? AND ( <predicate> )"
OnePredicate == Built /\ Len(conditions) = 1 /\ Len(query[1].where) = 5

\* C18: the sub-predicate of a negated condition is the complement of the
\* sub-predicate of the same condition not negated: LIKE becomes NOT LIKE
\* and = becomes !=, on the same column with the same parameter, and it holds
\* of exactly the rows the other does not hold of.
C18_NegationIsComplement ==
    (OnePredicate /\ conditions[1].negated) =>
        LET plain == build_sql_query(start_ts, end_ts,
                                     <<[conditions[1] EXCEPT !.negated = FALSE]>>,
                                     DefaultFields, limit)
            pred == query[1].where[4]
            plainPred == plain.query.where[4]
        IN  /\ pred.column = plainPred.column
            /\ params = plain.params
            /\ \/ plainPred.op = "LIKE" /\ pred.op = "NOT LIKE"
               \/ plainPred.op = "=" /\ pred.op = "!=" /\ pred.column = "ts"
            /\ \A i \in 1..Len(logs) :
                  PredicateHolds(pred, params, 3, logs[i])
                      = ~PredicateHolds(plainPred, plain.params, 3, logs[i])
            /\ (Fetched /\ limit = None) =>
                  SelectedIds =
                      {r.id : r \in {w \in InWindow :
                                        ~PredicateHolds(plainPred, plain.params, 3, w)}}

\* "!ts:1500" selects the rows of the window at other instants
C18_Witness ==
    /\ Fetched
    /\ filter_expr = QueryNotTs
    /\ limit = None
    /\ query[1].where[4] = Predicate("ts", "!=")
    /\ params[3] = IntParam(1500)
    /\ SelectedIds = {1, 4}

\* a field condition whose field is none of component, message, timestamp, ts
UnknownFieldCondition(c) ==
    c.type = "field" /\ c.field \notin {NameComponent, NameMessage, NameTimestamp, NameTs}

\* C19: a field condition on an unknown field is compiled as the general
\* condition with the same value and negation: a substring match against
\* the message column, and never an error.
C19_UnknownFieldSearchesMessage ==
    (Built /\ Len(conditions) = 1 /\ UnknownFieldCondition(conditions[1])) =>
        LET c == conditions[1]
            general == build_sql_query(start_ts, end_ts,
                                       <<[type |-> "general", value |-> c.value,
                                          negated |-> c.negated, operator |-> c.operator]>>,
                                       DefaultFields, limit)
        IN  /\ query[1] = general.query
            /\ params = general.params
            /\ query[1].where[4] =
                  Predicate("message", IF c.negated THEN "NOT LIKE" ELSE "LIKE")
            /\ params[3] = Contains(c.value)
            /\ pc = "query_done" => selected.ok

\* "level:warn" selects the row of the window whose message has "warn"
C19_Witness ==
    /\ Fetched
    /\ filter_expr = QueryUnknown
    /\ limit = None
    /\ conditions[1].field = <<"l", "e", "v", "e", "l">>
    /\ SelectedIds = {4}

\* whether the sub-predicate of condition c holds of a row
ConditionHolds(c, row) ==
    LET sql == ConditionSql(c)[1]
    IN  PredicateHolds(sql.sql, <<sql.param>>, 1, row)

\* the conditions folded from the left with their recorded operators:
\* ((c1 op1 c2) op2 c3) ...
RECURSIVE LeftFold(_, _, _)
LeftFold(conds, n, row) ==
    IF n = 1 THEN ConditionHolds(conds[1], row)
    ELSE IF conds[n - 1].operator = Some("OR")
    THEN LeftFold(conds, n - 1, row) \/ ConditionHolds(conds[n], row)
    ELSE LeftFold(conds, n - 1, row) /\ ConditionHolds(conds[n], row)

\* C20: the filter clause is evaluated as the left-to-right fold of the
\* sub-predicates with the recorded operators, AND not binding tighter than
\* OR: the rows selected are the rows of the window the fold holds of.
C20_LeftToRightFold ==
    (/\ Fetched
     /\ limit = None
     /\ conditions # <<>>
     /\ \A k \in 1..Len(conditions) : ~SkippedTs(k))
    => SelectedIds = {r.id : r \in {w \in InWindow : LeftFold(conditions, Len(conditions), w)}}

\* the conditions build_sql_query compiles: all but the ts conditions whose
\* value is not an integer, in order
CompiledConditions ==
    SelectSeq(conditions,
              LAMBDA c : ~(c.type = "field" /\ c.field = NameTs /\ ~PyInt(c.value).ok))

\* the sub-predicate text a condition stands for
ExpectedPredicate(c) ==
    IF c.type = "field" /\ c.field = NameTs
    THEN [t |-> "pred", column |-> "ts", op |-> IF c.negated THEN "!=" ELSE "="]
    ELSE [t |-> "pred", column |-> TargetColumn(c),
          op |-> IF c.negated THEN "NOT LIKE" ELSE "LIKE"]

\* the match value a condition stands for
ExpectedParameter(c) ==
    IF c.type = "field" /\ c.field = NameTs
    THEN [kind |-> "int", int |-> PyInt(c.value).val, text |-> <<>>]
    ELSE [kind |-> "text", int |-> 0, text |-> <<"%">> \o c.value \o <<"%">>]

\* C21: the filter clause lists the sub-predicates in condition order, with
\* exactly the operator recorded on the preceding condition between each
\* two, and the parameters are start, end and then the match values in the
\* same order.
C21_ClauseListsConditionsInOrder ==
    Built =>
        LET cc == CompiledConditions
            n == Len(cc)
        IN  /\ Len(FilterClause) = (IF n = 0 THEN 0 ELSE 2 * n - 1)
            /\ Len(params) = 2 + n
            /\ params[1] = IntParam(start_ts)
            /\ params[2] = IntParam(end_ts)
            /\ \A j \in 1..n :
                  /\ FilterClause[2 * j - 1] = ExpectedPredicate(cc[j])
                  /\ params[2 + j] = ExpectedParameter(cc[j])
            /\ \A j \in 1..(n - 1) : Some(FilterClause[2 * j].t) = cc[j].operator

\* the rows are in ascending order of ts
Ascending(seq) == \A i \in 1..(Len(seq) - 1) : seq[i].ts <= seq[i + 1].ts

\* C22: the rows come in ascending order of ts, and with a cap n, 0
\* included, they are the first n rows of that order: never more than n.
C22_AscendingAndCapped ==
    Fetched =>
        /\ Ascending(selected.val)
        /\ limit # None =>
              /\ Len(selected.val) <= limit[1]
              /\ \E all \in Execute([query[1] EXCEPT !.limit = None], params, logs) :
                    /\ all.ok
                    /\ Len(all.val) >= Len(selected.val)
                    /\ selected.val = SubSeq(all.val, 1, Len(selected.val))
                    /\ Len(all.val) >= limit[1] => Len(selected.val) = limit[1]

\* the predicates of the filter clause, in textual order
ClausePredicates == SelectSeq(FilterClause, LAMBDA token : token.t = "pred")

\* C30: the query has as many placeholders as there are parameters, and the
\* parameters are bound in textual order: start and end to "ts BETWEEN ? AND
\* ?", then one for the sub-predicate of each compiled condition.
C30_ParametersMatchPlaceholders ==
    Built =>
        LET cc == CompiledConditions
        IN  /\ Placeholders(query[1].where, Len(query[1].where)) = Len(params)
            /\ query[1].where[1] = Predicate("ts", "BETWEEN")
            /\ params[1] = IntParam(start_ts)
            /\ params[2] = IntParam(end_ts)
            /\ Len(ClausePredicates) = Len(cc)
            /\ Len(params) = 2 + Len(cc)
            /\ \A j \in 1..Len(cc) :
                  /\ ClausePredicates[j] = ExpectedPredicate(cc[j])
                  /\ params[2 + j] = ExpectedParameter(cc[j])

\* "Err or ts:x AND !ts:1500": the skipped condition has no placeholder and
\* no parameter
C30_Witness ==
    /\ Built
    /\ filter_expr = QueryErr \o SepLowerOr \o QueryBadTs \o SepAnd \o QueryNotTs
    /\ Len(conditions) = 3
    /\ Len(ClausePredicates) = 2
    /\ params = <<IntParam(1000), IntParam(2000), TextParam(<<"%", "E", "r", "r", "%">>),
                  IntParam(1500)>>

\* the output fields the command line asks for
RequestedFields == FieldList(fields_option, withtime)

\* some requested output field is not a column of the logs table
UnknownRequested ==
    \E i \in 1..Len(RequestedFields) :
        \A j \in 1..Len(AvailableFields) : AvailableFields[j] # RequestedFields[i]

\* no query has been built or executed, and the command, once ended, ended
\* with exit status 1
RejectedBeforePlanning ==
    /\ query = None
    /\ params = <<>>
    /\ selected = Pending
    /\ pc \in {"command", "exited"}
    /\ pc = "exited" => exit_code = Some(1)

\* C23 as stated: whenever a requested output field is not a field of the
\* store, build_sql_query is never called, no query is executed and the
\* command ends in an error outcome.
C23_UnknownFieldRejected == UnknownRequested => RejectedBeforePlanning

\* C23, amended: without --show-fields, whenever a requested output field is
\* not a field of the store, build_sql_query is never called, no query is
\* executed and the command ends with exit status 1; with --show-fields the
\* fields are listed, --fields is not validated, no query is built or
\* executed and the command ends with exit status 0.
C23_UnknownFieldRejectedUnlessShowFields ==
    UnknownRequested =>
        IF show_fields
        THEN /\ query = None
             /\ selected = Pending
             /\ pc \in {"command", "exited"}
             /\ pc = "exited" => exit_code = Some(0)
        ELSE RejectedBeforePlanning

\* "--fields bogus" with a good timestamp and an existing database: the
\* command has ended with status 1 and no query
C23_Witness ==
    /\ pc = "exited"
    /\ ~show_fields
    /\ database_exists
    /\ ts_text = StampUnix
    /\ fields_option = FieldsBogus
    /\ ts_result = Ok(1500)
    /\ field_list = <<FieldsBogus>>
    /\ exit_code = Some(1)
    /\ query = None

\* C26: the window handed to build_sql_query is target - range and
\* target + range, and start <= end, for every --range the command accepts.
C26_WindowOrdered ==
    Built =>
        /\ start_ts = ts_result.val - range
        /\ end_ts = ts_result.val + range
        /\ start_ts <= end_ts

\* the rows of the window that satisfy every --filter expression
RowsOfEveryFilter ==
    {row \in InWindow :
        \A k \in 1..Len(filters) :
            LET conds == parse_filter_expression(filters[k])
            IN  conds # <<>> => LeftFold(conds, Len(conds), row)}

\* C28: with one or more --filter options, the conditions of all expressions
\* are concatenated in order, the filter clause has exactly one join operator
\* between adjacent sub-predicates, the query executes, and it selects the
\* rows satisfying every filter expression.
C28_RepeatedFiltersCombine ==
    (Built /\ Len(filters) >= 1) =>
        /\ \A k \in 1..Len(filters) :
              \E from \in 0..Len(conditions) :
                  LET conds == parse_filter_expression(filters[k])
                  IN  /\ from + Len(conds) <= Len(conditions)
                      /\ SubSeq(conditions, from + 1, from + Len(conds)) = conds
        /\ WellJoined(FilterClause)
        /\ pc = "query_done" =>
              /\ selected.ok
              /\ limit = None =>
                    {selected.val[i] : i \in 1..Len(selected.val)} = RowsOfEveryFilter

---------------------------------------------------------------------------
(* Properties of the ingestion batch *)

\* the number of rows process_log_file inserts for a file it reads to the
\* end: its non-empty lines from the first timestamped line on
RECURSIVE EntriesOf(_, _)
EntriesOf(content, n) ==
    IF n = 0 THEN 0
    ELSE LET line == RStripNewlines(content[n])
             seen == \E j \in 1..n : TimestampMatch(RStripNewlines(content[j])).matched
         IN  EntriesOf(content, n - 1) + (IF line # <<>> /\ seen THEN 1 ELSE 0)

\* file k of the batch failed
FileFailed(k) == ~outcomes[k].ok

\* the outcomes recorded so far are those of the first files, in discovery
\* order: a file that cannot be opened is a failure, a file that returned
\* has the count of its own lines and rows of its own component
ProcessedInOrder ==
    /\ Len(outcomes) <= Len(log_files)
    /\ Len(inserted) = Len(outcomes)
    /\ \A k \in 1..Len(outcomes) :
          /\ ~log_files[k].readable => FileFailed(k)
          /\ outcomes[k].ok =>
                outcomes[k].val = EntriesOf(log_files[k].lines, Len(log_files[k].lines))
          /\ \A i \in 1..Len(inserted[k]) :
                inserted[k][i].component = BatchComponents[k]

\* the run has committed and closed, with an outcome for every file
BatchClosed ==
    /\ pc = "closed"
    /\ file_no = Len(log_files)
    /\ Len(outcomes) = Len(log_files)

\* C24: a failure while processing one file never stops the batch: the
\* files are processed in discovery order, failed or not, and every run
\* reaches the final commit and close with an outcome for every file.
C24_FailureNeverStopsBatch == []ProcessedInOrder /\ <>BatchClosed

\* the first of two files failed, the second was processed and stored, and
\* the run has committed and closed
C24_Witness ==
    /\ BatchClosed
    /\ Len(log_files) = 2
    /\ FileFailed(1)
    /\ outcomes[2] = Ok(2)
    /\ Len(committed) = 2
    /\ \A i \in 1..2 : committed[i].component = BatchComponents[2]

\* C25: ingestion is atomic per file: once a file has been processed its
\* rows are committed, and a file that failed leaves none of its rows in the
\* transaction or in the store.
C25_PerFileAtomic ==
    /\ \A k \in 1..Len(outcomes) :
          IF outcomes[k].ok
          THEN \A i \in 1..Len(inserted[k]) :
                  \E j \in 1..Len(committed) : committed[j] = inserted[k][i]
          ELSE inserted[k] = <<>>
    /\ pc = "closed" =>
          \A j \in 1..Len(committed) :
              \E k \in 1..Len(outcomes) :
                  outcomes[k].ok /\ committed[j].component = BatchComponents[k]

\* the sum of the counts process_log_file returned for the first n files
RECURSIVE ReturnedTotal(_)
ReturnedTotal(n) ==
    IF n = 0 THEN 0
    ELSE ReturnedTotal(n - 1) + (IF outcomes[n].ok THEN outcomes[n].val ELSE 0)

\* C27: after a run the number of rows added to the store equals the
\* reported total, which is the sum of the counts process_log_file returned,
\* and the count returned for a file is the number of rows inserted for it.
C27_StoredEqualsReported ==
    /\ total_entries = ReturnedTotal(Len(outcomes))
    /\ \A k \in 1..Len(outcomes) : outcomes[k].ok => outcomes[k].val = Len(inserted[k])
    /\ pc = "closed" => Len(committed) = total_entries

\* file k has a timestamped line whose instant is ts
StampedIn(k, ts) ==
    \E j \in 1..Len(log_files[k].lines) :
        LET line == RStripNewlines(log_files[k].lines[j])
        IN  /\ TimestampMatch(line).matched
            /\ parse_time_to_unix_timestamp(tz, SubSeq(line, 1, 12), reference_date).val = ts

\* C29: every process_log_file call starts with no current timestamp: while
\* no line of the file in progress has matched, no row has been inserted for
\* it and current_timestamp is None, whatever the previous file ended with;
\* every row of a file carries the instant of a timestamped line of that file.
C29_StateResetPerFile ==
    /\ (pc \in {"loop", "returned"} /\ file_no >= 1 /\ LastStamped(idx) = 0) =>
          /\ current_timestamp = None
          /\ rows = <<>>
          /\ entries_processed = 0
    /\ \A k \in 1..Len(inserted) :
          \A i \in 1..Len(inserted[k]) : StampedIn(k, inserted[k][i].ts)

\* the second file begins with an unstamped line, which has been consumed;
\* the first file ended with a current timestamp and a stored row
C29_Witness ==
    /\ pc = "loop"
    /\ file_no = 2
    /\ outcomes = <<Ok(1)>>
    /\ inserted[1] # <<>>
    /\ log_files[2] = ReadableFile(FileOrphanB)
    /\ idx = 1
    /\ Unstamped(1)
    /\ rows = <<>>
    /\ current_timestamp = None

====
